---- MODULE Spec2Model ----
(***************************************************************************)
(* Model of the authentication backend of fpna_cfo_crew_ai:                *)
(*   backend/core/security.py  (passwords, JWT codec, role hierarchy)      *)
(*   backend/models/user.py    (User table and UserCRUD)                   *)
(*   backend/api/auth.py       (the /auth endpoints and their dependencies)*)
(* One action per endpoint; an action is the whole request, from the       *)
(* dependencies (get_current_user, role_checker) to the commit.            *)
(* Time is counted in whole seconds, the resolution python-jose gives to   *)
(* the exp and iat claims (timegm(utctimetuple())).                        *)
(***************************************************************************)
EXTENDS Integers, Sequences, FiniteSets, TLC

VARIABLES users, now, tokens, resp, ticks, db, drawn

vars == <<users, now, tokens, resp, ticks, db, drawn>>

(***************************** bounds **************************************)
MaxTicks == 2

(*************************** program constants *****************************)
ACCESS_TOKEN_EXPIRE_MINUTES == 30
REFRESH_TOKEN_EXPIRE_DAYS == 7
SECRET_KEY == "your-secret-key-change-in-production"

ADMIN == "admin"
CFO == "cfo"
ANALYST == "analyst"
VIEWER == "viewer"

None == "None"
NoTime == -1

HTTP_200_OK == 200
HTTP_201_CREATED == 201
HTTP_400_BAD_REQUEST == 400
HTTP_401_UNAUTHORIZED == 401
HTTP_403_FORBIDDEN == 403
HTTP_404_NOT_FOUND == 404
HTTP_409_CONFLICT == 409
HTTP_422_UNPROCESSABLE_ENTITY == 422
HTTP_500_INTERNAL_SERVER_ERROR == 500

(***************************** inputs **************************************)
AdminEmail == "admin@example.com"
Emails == {AdminEmail, "a@x.com"}

\* passwords are sequences of characters
PwAdmin == <<"A", "d", "m", "i", "n", "1", "2", "3", "!">>
PwAlice == <<"S", "t", "r", "0", "n", "g", "!", "P", "a", "s", "s">>
PwShort == <<"s", "h", "o", "r", "t">>
Passwords == {PwAdmin, PwAlice, PwShort}
NewPasswords == {PwAlice, PwShort}

UnAdmin == <<"A", "d", "m", "i", "n", " ", "U", "s", "e", "r">>
UnAlice == <<" ", "A", "l", "i", "c", "e">>
UnShort == <<"a", "b", " ">>
Usernames == {UnAlice, UnShort}

RoleInputs == {ADMIN, CFO, ANALYST, VIEWER, "superuser"}

\* str.isupper, str.islower and str.isdigit on the characters of the inputs
UpperChars == {"A", "S", "P", "U"}
LowerChars == {"a", "b", "c", "d", "e", "g", "h", "i", "l", "m", "n", "o", "r", "s", "t"}
DigitChars == {"0", "1", "2", "3"}
special_chars ==
    {"!", "@", "#", "$", "%", "^", "&", "*", "(", ")", "_", "+", "-",
     "=", "[", "]", "{", "}", "|", ";", ":", ",", ".", "<", ">", "?"}

(************************ security.py: passwords ***************************)
\* bcrypt reads the first 72 bytes of a password (passlib: truncate_size,
\* with truncate_error off by default)
truncate_size == 72
truncate(password) ==
    IF Len(password) > truncate_size THEN SubSeq(password, 1, truncate_size) ELSE password

\* bcrypt: the hash embeds the salt; the digest depends on salt and password
hash_password(password, salt) == [salt |-> salt, digest |-> <<salt, truncate(password)>>]

verify_password(plain_password, hashed_password) ==
    hashed_password.digest = <<hashed_password.salt, truncate(plain_password)>>

any_char(S, password) == \E i \in 1..Len(password) : password[i] \in S

validate_password_strength(password) ==
    IF password = <<>> THEN {"Password cannot be empty"}
    ELSE (IF Len(password) < 8 THEN {"Password must be at least 8 characters long"} ELSE {})
         \cup (IF ~any_char(UpperChars, password) THEN {"Password must contain at least one uppercase letter"} ELSE {})
         \cup (IF ~any_char(LowerChars, password) THEN {"Password must contain at least one lowercase letter"} ELSE {})
         \cup (IF ~any_char(DigitChars, password) THEN {"Password must contain at least one digit"} ELSE {})
         \cup (IF ~any_char(special_chars, password) THEN {"Password must contain at least one special character (!@#$%^&*()_+-=[]{}|;:,.<>?)"} ELSE {})

(************************ security.py: roles *******************************)
ROLE_HIERARCHY == [r \in {VIEWER, ANALYST, CFO, ADMIN} |->
                     CASE r = VIEWER -> 0 [] r = ANALYST -> 1 [] r = CFO -> 2 [] r = ADMIN -> 3]

is_valid_role(role) == role \in DOMAIN ROLE_HIERARCHY

\* mutant: the comparison is strict
has_permission_strict(user_role, required_role) ==
    IF ~is_valid_role(user_role) THEN FALSE
    ELSE IF ~is_valid_role(required_role) THEN FALSE
    ELSE ROLE_HIERARCHY[user_role] > ROLE_HIERARCHY[required_role]

\* mutant: the validity checks are missing and an unknown role gets the
\* default level of ROLE_HIERARCHY.get(role, -1)
has_permission_unvalidated(user_role, required_role) ==
    (IF is_valid_role(user_role) THEN ROLE_HIERARCHY[user_role] ELSE -1)
        >= (IF is_valid_role(required_role) THEN ROLE_HIERARCHY[required_role] ELSE -1)

has_permission(user_role, required_role) ==
    IF ~is_valid_role(user_role) THEN FALSE
    ELSE IF ~is_valid_role(required_role) THEN FALSE
    ELSE ROLE_HIERARCHY[user_role] >= ROLE_HIERARCHY[required_role]

(************************ security.py: tokens ******************************)
\* str(user.id) and int(user_id)
Digits == <<"1", "2", "3", "4", "5", "6", "7", "8", "9">>
str(i) == Digits[i]
int(s) == CHOOSE i \in 1..Len(Digits) : Digits[i] = s

\* HMAC of the payload under a key: equal only for the same key and payload
Sign(payload, key) == [key |-> key, body |-> payload]

create_access_token(data, t) ==
    LET to_encode == [sub |-> data.sub, email |-> data.email, role |-> data.role,
                      exp |-> t + ACCESS_TOKEN_EXPIRE_MINUTES * 60,
                      iat |-> t, type |-> "access"]
    IN  [payload |-> to_encode, sig |-> Sign(to_encode, SECRET_KEY)]

\* Optional[timedelta]: << >> is None, <<d>> is a timedelta of d seconds
timedelta(seconds) == <<seconds>>
\* timedelta.__bool__: None and the zero duration are false
bool(expires_delta) == expires_delta # << >> /\ expires_delta[1] # 0

\* create_access_token with both its parameters
create_access_token_expires_delta(data, expires_delta, t) ==
    LET expire == IF bool(expires_delta)
                  THEN t + expires_delta[1]
                  ELSE t + ACCESS_TOKEN_EXPIRE_MINUTES * 60
        to_encode == [sub |-> data.sub, email |-> data.email, role |-> data.role,
                      exp |-> expire, iat |-> t, type |-> "access"]
    IN  [payload |-> to_encode, sig |-> Sign(to_encode, SECRET_KEY)]

\* mutant: the lifetime is taken in minutes
create_refresh_token_minutes(data, t) ==
    LET to_encode == [sub |-> data.sub, email |-> None, role |-> None,
                      exp |-> t + REFRESH_TOKEN_EXPIRE_DAYS * 60,
                      iat |-> t, type |-> "refresh"]
    IN  [payload |-> to_encode, sig |-> Sign(to_encode, SECRET_KEY)]

create_refresh_token(data, t) ==
    LET to_encode == [sub |-> data.sub, email |-> None, role |-> None,
                      exp |-> t + REFRESH_TOKEN_EXPIRE_DAYS * 24 * 60 * 60,
                      iat |-> t, type |-> "refresh"]
    IN  [payload |-> to_encode, sig |-> Sign(to_encode, SECRET_KEY)]

\* jwt.decode: signature check, then _validate_exp raises only if exp < now
NoPayload == [sub |-> None, email |-> None, role |-> None, exp |-> NoTime, iat |-> NoTime, type |-> None]

\* mutant: a token of a deactivated user is treated as revoked
decode_token_revoked(token, t) ==
    IF token.sig # Sign(token.payload, SECRET_KEY) THEN NoPayload
    ELSE IF token.payload.exp < t THEN NoPayload
    ELSE IF \E i \in DOMAIN users : str(i) = token.payload.sub /\ ~users[i].is_active THEN NoPayload
    ELSE token.payload

decode_token(token, t) ==
    IF token.sig # Sign(token.payload, SECRET_KEY) THEN NoPayload
    ELSE IF token.payload.exp < t THEN NoPayload
    ELSE token.payload

get_user_id_from_token(token, t) ==
    LET payload == decode_token(token, t)
    IN  IF payload # NoPayload THEN payload.sub ELSE None

(************************ user.py: User and UserCRUD ***********************)
\* the users table: row i has id = i (autoincrement primary key, no hard
\* delete on the public surface)
\* mutant: the two flags are mixed up
create_user_flags_mixed(email, username, password, role, is_verified, salt, t) ==
    [id |-> Len(users) + 1, email |-> email, username |-> username,
     hashed_password |-> hash_password(password, salt),
     role |-> role, is_active |-> is_verified, is_verified |-> TRUE,
     created_at |-> t, last_login |-> NoTime, api_key |-> None]

create_user(email, username, password, role, is_verified, salt, t) ==
    [id |-> Len(users) + 1, email |-> email, username |-> username,
     hashed_password |-> hash_password(password, salt),
     role |-> role, is_active |-> TRUE, is_verified |-> is_verified,
     created_at |-> t, last_login |-> NoTime, api_key |-> None]

\* mutant: the lookup goes through the (email, is_active) index and skips
\* deactivated rows
get_user_by_email_active(email) ==
    IF \E i \in DOMAIN users : users[i].email = email /\ users[i].is_active
    THEN CHOOSE i \in DOMAIN users : users[i].email = email /\ users[i].is_active
    ELSE 0

\* the id of the row, or 0 when the query returns None
get_user_by_email(email) ==
    IF \E i \in DOMAIN users : users[i].email = email
    THEN CHOOSE i \in DOMAIN users : users[i].email = email
    ELSE 0

get_user_by_id(user_id) == IF user_id \in DOMAIN users THEN user_id ELSE 0

RECURSIVE ActiveRows(_)
ActiveRows(s) ==
    IF s = <<>> THEN <<>>
    ELSE IF Head(s).is_active THEN <<Head(s)>> \o ActiveRows(Tail(s))
    ELSE ActiveRows(Tail(s))

\* the orders in which a SELECT without ORDER BY can return the rows of the
\* table: SQLite scans by rowid, PostgreSQL in the order of the heap, where
\* every UPDATE (a login, say) puts the row's new version behind the others
Scans == {scan \in [DOMAIN users -> DOMAIN users] :
             \A i, j \in DOMAIN users : scan[i] = scan[j] => i = j}

\* query.filter(is_active).offset(skip).limit(limit).all()
get_all_users(skip, limit, scan) ==
    LET active == ActiveRows([k \in DOMAIN users |-> users[scan[k]]])
        last == IF skip + limit < Len(active) THEN skip + limit ELSE Len(active)
    IN  SubSeq(active, skip + 1, last)

\* setattr for every keyword that names an attribute of the row
update_user(user, kwargs) ==
    [f \in DOMAIN user |-> IF f \in DOMAIN kwargs THEN kwargs[f] ELSE user[f]]

\* mutant: the timestamp is written to the wrong column
update_last_login_wrong_column(user, t) == [user EXCEPT !.created_at = t]

update_last_login(user, t) == [user EXCEPT !.last_login = t]

\* mutant: the flag is flipped
UserCRUD_deactivate_user_flips(user) == [user EXCEPT !.is_active = ~@]

UserCRUD_deactivate_user(user) == [user EXCEPT !.is_active = FALSE]

\* mutant: the new hash is computed but not assigned
UserCRUD_change_password_not_assigned(user, new_password, salt) ==
    [user EXCEPT !.hashed_password = @]

UserCRUD_change_password(user, new_password, salt) ==
    [user EXCEPT !.hashed_password = hash_password(new_password, salt)]

\* UserResponse: the public view of a row (no hash, no key)
UserResponse(user) ==
    [id |-> user.id, email |-> user.email, username |-> user.username, role |-> user.role,
     is_active |-> user.is_active, is_verified |-> user.is_verified,
     created_at |-> user.created_at, last_login |-> user.last_login]

\* User.can_execute_agents and User.can_view_all_reports
can_execute_agents(user) == has_permission(user.role, ANALYST)

\* mutant: the CFO manages users too
can_manage_users_cfo(user) == user.role \in {ADMIN, CFO}

can_manage_users(user) == user.role = ADMIN

can_view_all_reports(user) == has_permission(user.role, CFO)

(************************ auth.py: request validation **********************)
RECURSIVE lstrip(_)
lstrip(v) == IF v # <<>> /\ Head(v) = " " THEN lstrip(Tail(v)) ELSE v

RECURSIVE rstrip(_)
rstrip(v) == IF v # <<>> /\ v[Len(v)] = " " THEN rstrip(SubSeq(v, 1, Len(v) - 1)) ELSE v

strip(v) == rstrip(lstrip(v))

\* the validator's verdict; the value it returns is strip(v)
validate_username(v) ==
    IF v = <<>> \/ strip(v) = <<>> THEN FALSE
    ELSE IF Len(strip(v)) < 3 THEN FALSE
    ELSE IF Len(strip(v)) > 50 THEN FALSE
    ELSE TRUE

validate_password(v) == validate_password_strength(v) = {}

(************************ auth.py: responses *******************************)
Bearer == {<<"WWW-Authenticate", "Bearer">>}

Response(op, status, detail, headers, toks, body) ==
    [op |-> op, status |-> status, detail |-> detail, headers |-> headers,
     tokens |-> toks, body |-> body]

HTTPException(op, status, detail, headers) == Response(op, status, detail, headers, {}, <<>>)

ValidationError(op) ==
    HTTPException(op, HTTP_422_UNPROCESSABLE_ENTITY, "Validation Error", {})

(************************ auth.py: dependencies ****************************)
\* the outcome of a dependency: the caller's id, or the error it raises
Allow(uid) == [ok |-> TRUE, uid |-> uid, status |-> HTTP_200_OK, detail |-> "", headers |-> {}]
Deny(status, detail, headers) ==
    [ok |-> FALSE, uid |-> 0, status |-> status, detail |-> detail, headers |-> headers]

\* mutant: the is_active check is missing
get_current_user_no_active_check(token) ==
    LET user_id == get_user_id_from_token(token, now)
    IN  IF user_id = None \/ user_id = ""
        THEN Deny(HTTP_401_UNAUTHORIZED, "Invalid authentication credentials", Bearer)
        ELSE IF get_user_by_id(int(user_id)) = 0
        THEN Deny(HTTP_401_UNAUTHORIZED, "User not found", Bearer)
        ELSE Allow(int(user_id))

get_current_user(token) ==
    LET user_id == get_user_id_from_token(token, now)
    IN  IF user_id = None \/ user_id = ""
        THEN Deny(HTTP_401_UNAUTHORIZED, "Invalid authentication credentials", Bearer)
        ELSE IF get_user_by_id(int(user_id)) = 0
        THEN Deny(HTTP_401_UNAUTHORIZED, "User not found", Bearer)
        ELSE IF ~users[int(user_id)].is_active
        THEN Deny(HTTP_401_UNAUTHORIZED, "Inactive user", Bearer)
        ELSE Allow(int(user_id))

\* mutant: the comparison of the levels is the wrong way round
role_checker_reversed(required_role, token) ==
    LET current_user == get_current_user(token)
    IN  IF ~current_user.ok THEN current_user
        ELSE IF ~has_permission(required_role, users[current_user.uid].role)
        THEN Deny(HTTP_403_FORBIDDEN, "Insufficient permissions. Required role: " \o required_role, {})
        ELSE current_user

\* mutant: the decision is taken on the role claim of the token
role_checker_token_claim(required_role, token) ==
    LET current_user == get_current_user(token)
    IN  IF ~current_user.ok THEN current_user
        ELSE IF ~has_permission(token.payload.role, required_role)
        THEN Deny(HTTP_403_FORBIDDEN, "Insufficient permissions. Required role: " \o required_role, {})
        ELSE current_user

role_checker(required_role, token) ==
    LET current_user == get_current_user(token)
    IN  IF ~current_user.ok THEN current_user
        ELSE IF ~has_permission(users[current_user.uid].role, required_role)
        THEN Deny(HTTP_403_FORBIDDEN, "Insufficient permissions. Required role: " \o required_role, {})
        ELSE current_user

(************************ clients and the clock ****************************)
Salts == {1}

\* what a client can put in a request: a token it holds, a held refresh token
\* with its expiry pushed back (payload altered, signature kept), or a
\* made-up token signed with a key that is not the server's
Extend(t) == [t EXCEPT !.payload.exp = @ + 1]
MadeUp ==
    LET p == [sub |-> "1", email |-> AdminEmail, role |-> ADMIN,
              exp |-> REFRESH_TOKEN_EXPIRE_DAYS * 24 * 60 * 60, iat |-> 0, type |-> "access"]
    IN  [payload |-> p, sig |-> Sign(p, "not-the-server-key")]
Presented ==
    tokens \cup {Extend(t) : t \in {h \in tokens : h.payload.type = "refresh"}} \cup {MadeUp}

\* the client of a user keeps the latest pair issued to that user
Receive(toks) == {t \in tokens : \A n \in toks : t.payload.sub # n.payload.sub} \cup toks

\* the instants around the expiry of the held tokens
Instants == UNION {{t.payload.exp - 1, t.payload.exp, t.payload.exp + 1} : t \in tokens}

(************************ database.py: sessions ****************************)
\* the requests in progress: each holds one session of SessionLocal()
Sessions == {1, 2}

\* a session that is not in use: no request yet, nothing read, nothing sent
Closed ==
    [pc |-> "idle", session |-> "closed", before |-> << >>,
     out |-> [resp |-> [op |-> "none", status |-> 0, detail |-> "", headers |-> {},
                        tokens |-> {}, body |-> << >>],
              users |-> << >>],
     resp |-> [op |-> "none", status |-> 0, detail |-> "", headers |-> {},
               tokens |-> {}, body |-> << >>]]

(******************************* Init **************************************)
\* the table as init_phase1.create_admin_user leaves it
Init ==
    /\ users = <<[id |-> 1, email |-> AdminEmail, username |-> UnAdmin,
                  hashed_password |-> hash_password(PwAdmin, 1),
                  role |-> ADMIN, is_active |-> TRUE, is_verified |-> TRUE,
                  created_at |-> 0, last_login |-> NoTime, api_key |-> None]>>
    /\ now = 0
    /\ tokens = {}
    /\ resp = Response("none", 0, "", {}, {}, <<>>)
    /\ ticks = 0
    /\ db = [s \in Sessions |-> Closed]
    /\ drawn = 0

(***************************** endpoints ***********************************)
\* Each endpoint is a function of the table, the clock and the request: the
\* response it sends and the table it commits.  A request that raises leaves
\* the table as it was (nothing was flushed before the raise).
Result(response, table) == [resp |-> response, users |-> table]

Failure(response) == Result(response, users)

Refuse(op, dep) == Failure(HTTPException(op, dep.status, dep.detail, dep.headers))

register(email, username, password, salt) ==
    IF ~validate_username(username) \/ ~validate_password(password)
    THEN Failure(ValidationError("register"))
    ELSE IF get_user_by_email(email) # 0
    THEN Failure(HTTPException("register", HTTP_409_CONFLICT, "Email already registered", {}))
    ELSE LET user == create_user(email, strip(username), password, VIEWER, FALSE, salt, now)
         IN  Result(Response("register", HTTP_201_CREATED, "", {}, {}, <<UserResponse(user)>>),
                    Append(users, user))

TokenPair(user) ==
    {create_access_token([sub |-> str(user.id), email |-> user.email, role |-> user.role], now),
     create_refresh_token([sub |-> str(user.id)], now)}

\* mutant: an unknown email is reported as such
login_leaky(email, password) ==
    LET user == get_user_by_email(email)
    IN  IF user = 0
        THEN Failure(HTTPException("login", HTTP_404_NOT_FOUND, "User not found", {}))
        ELSE IF ~verify_password(password, users[user].hashed_password)
        THEN Failure(HTTPException("login", HTTP_401_UNAUTHORIZED, "Incorrect email or password", Bearer))
        ELSE IF ~users[user].is_active
        THEN Failure(HTTPException("login", HTTP_401_UNAUTHORIZED, "Inactive user account", Bearer))
        ELSE LET table == [users EXCEPT ![user] = update_last_login(@, now)]
             IN  Result(Response("login", HTTP_200_OK, "", {}, TokenPair(table[user]), <<>>), table)

\* mutant: the active flag is looked at before the password
login_active_first(email, password) ==
    LET user == get_user_by_email(email)
    IN  IF user = 0
        THEN Failure(HTTPException("login", HTTP_401_UNAUTHORIZED, "Incorrect email or password", Bearer))
        ELSE IF ~users[user].is_active
        THEN Failure(HTTPException("login", HTTP_401_UNAUTHORIZED, "Inactive user account", Bearer))
        ELSE IF ~verify_password(password, users[user].hashed_password)
        THEN Failure(HTTPException("login", HTTP_401_UNAUTHORIZED, "Incorrect email or password", Bearer))
        ELSE LET table == [users EXCEPT ![user] = update_last_login(@, now)]
             IN  Result(Response("login", HTTP_200_OK, "", {}, TokenPair(table[user]), <<>>), table)

login(email, password) ==
    LET user == get_user_by_email(email)
    IN  IF user = 0
        THEN Failure(HTTPException("login", HTTP_401_UNAUTHORIZED, "Incorrect email or password", Bearer))
        ELSE IF ~verify_password(password, users[user].hashed_password)
        THEN Failure(HTTPException("login", HTTP_401_UNAUTHORIZED, "Incorrect email or password", Bearer))
        ELSE IF ~users[user].is_active
        THEN Failure(HTTPException("login", HTTP_401_UNAUTHORIZED, "Inactive user account", Bearer))
        ELSE LET table == [users EXCEPT ![user] = update_last_login(@, now)]
             IN  Result(Response("login", HTTP_200_OK, "", {}, TokenPair(table[user]), <<>>), table)

\* mutant: the new pair is issued for the first row of the table
refresh_token_first_row(token) ==
    LET payload == decode_token(token, now)
    IN  IF payload = NoPayload
        THEN Failure(HTTPException("refresh", HTTP_401_UNAUTHORIZED, "Invalid refresh token", Bearer))
        ELSE IF payload.type # "refresh"
        THEN Failure(HTTPException("refresh", HTTP_401_UNAUTHORIZED, "Invalid token type", Bearer))
        ELSE IF payload.sub = None \/ payload.sub = ""
        THEN Failure(HTTPException("refresh", HTTP_401_UNAUTHORIZED, "Invalid token payload", Bearer))
        ELSE IF get_user_by_id(int(payload.sub)) = 0
        THEN Failure(HTTPException("refresh", HTTP_401_UNAUTHORIZED, "User not found", Bearer))
        ELSE IF ~users[int(payload.sub)].is_active
        THEN Failure(HTTPException("refresh", HTTP_401_UNAUTHORIZED, "Inactive user", Bearer))
        ELSE Result(Response("refresh", HTTP_200_OK, "", {}, TokenPair(users[1]), <<>>), users)

refresh_token(token) ==
    LET payload == decode_token(token, now)
    IN  IF payload = NoPayload
        THEN Failure(HTTPException("refresh", HTTP_401_UNAUTHORIZED, "Invalid refresh token", Bearer))
        ELSE IF payload.type # "refresh"
        THEN Failure(HTTPException("refresh", HTTP_401_UNAUTHORIZED, "Invalid token type", Bearer))
        ELSE IF payload.sub = None \/ payload.sub = ""
        THEN Failure(HTTPException("refresh", HTTP_401_UNAUTHORIZED, "Invalid token payload", Bearer))
        ELSE IF get_user_by_id(int(payload.sub)) = 0
        THEN Failure(HTTPException("refresh", HTTP_401_UNAUTHORIZED, "User not found", Bearer))
        ELSE IF ~users[int(payload.sub)].is_active
        THEN Failure(HTTPException("refresh", HTTP_401_UNAUTHORIZED, "Inactive user", Bearer))
        ELSE Result(Response("refresh", HTTP_200_OK, "", {}, TokenPair(users[int(payload.sub)]), <<>>), users)

\* mutant: the profile is built from the claims of the token
get_current_user_profile_from_token(token) ==
    LET current_user == get_current_user(token)
    IN  IF ~current_user.ok THEN Refuse("me", current_user)
        ELSE Result(Response("me", HTTP_200_OK, "", {}, {},
                             <<[UserResponse(users[current_user.uid]) EXCEPT !.role = token.payload.role]>>),
                    users)

get_current_user_profile(token) ==
    LET current_user == get_current_user(token)
    IN  IF ~current_user.ok THEN Refuse("me", current_user)
        ELSE Result(Response("me", HTTP_200_OK, "", {}, {}, <<UserResponse(users[current_user.uid])>>), users)

\* update_data is the record of the fields the request sets: << >> or [username |-> v]
update_current_user_profile(token, update_data) ==
    LET current_user == get_current_user(token)
        uid == current_user.uid
        data == [f \in DOMAIN update_data |-> strip(update_data[f])]
        user == update_user(users[uid], data)
    IN  IF ~current_user.ok THEN Refuse("update_me", current_user)
        ELSE IF "username" \in DOMAIN update_data /\ ~validate_username(update_data.username)
        THEN Failure(ValidationError("update_me"))
        ELSE Result(Response("update_me", HTTP_200_OK, "", {}, {}, <<UserResponse(user)>>),
                    [users EXCEPT ![uid] = user])

change_password(token, current_password, new_password, salt) ==
    LET current_user == get_current_user(token)
        uid == current_user.uid
    IN  IF ~current_user.ok THEN Refuse("change_password", current_user)
        ELSE IF ~validate_password(new_password)
        THEN Failure(ValidationError("change_password"))
        ELSE IF ~verify_password(current_password, users[uid].hashed_password)
        THEN Failure(HTTPException("change_password", HTTP_400_BAD_REQUEST, "Current password is incorrect", {}))
        ELSE Result(Response("change_password", HTTP_200_OK, "Password changed successfully", {}, {}, <<>>),
                    [users EXCEPT ![uid] = UserCRUD_change_password(@, new_password, salt)])

RECURSIVE Views(_)
Views(s) == IF s = <<>> THEN <<>> ELSE <<UserResponse(Head(s))>> \o Views(Tail(s))

list_users(token, skip, limit, scan) ==
    LET current_user == role_checker(ADMIN, token)
    IN  IF ~current_user.ok THEN Refuse("list_users", current_user)
        ELSE Result(Response("list_users", HTTP_200_OK, "", {}, {}, Views(get_all_users(skip, limit, scan))), users)

\* mutant: RoleUpdate has no validator
update_user_role_unvalidated(token, user_id, role) ==
    LET current_user == role_checker(ADMIN, token)
        user == get_user_by_id(user_id)
    IN  IF ~current_user.ok THEN Refuse("update_user_role", current_user)
        ELSE IF user = 0
        THEN Failure(HTTPException("update_user_role", HTTP_404_NOT_FOUND, "User not found", {}))
        ELSE LET table == [users EXCEPT ![user] = update_user(@, [role |-> role])]
             IN  Result(Response("update_user_role", HTTP_200_OK, "", {}, {}, <<UserResponse(table[user])>>),
                        table)

\* mutant: the route depends on get_current_active_user only
update_user_role_any_user(token, user_id, role) ==
    LET current_user == get_current_user(token)
        user == get_user_by_id(user_id)
    IN  IF ~current_user.ok THEN Refuse("update_user_role", current_user)
        ELSE IF ~is_valid_role(role)
        THEN Failure(ValidationError("update_user_role"))
        ELSE IF user = 0
        THEN Failure(HTTPException("update_user_role", HTTP_404_NOT_FOUND, "User not found", {}))
        ELSE LET table == [users EXCEPT ![user] = update_user(@, [role |-> role])]
             IN  Result(Response("update_user_role", HTTP_200_OK, "", {}, {}, <<UserResponse(table[user])>>),
                        table)

update_user_role(token, user_id, role) ==
    LET current_user == role_checker(ADMIN, token)
        user == get_user_by_id(user_id)
    IN  IF ~current_user.ok THEN Refuse("update_user_role", current_user)
        ELSE IF ~is_valid_role(role)
        THEN Failure(ValidationError("update_user_role"))
        ELSE IF user = 0
        THEN Failure(HTTPException("update_user_role", HTTP_404_NOT_FOUND, "User not found", {}))
        ELSE LET table == [users EXCEPT ![user] = update_user(@, [role |-> role])]
             IN  Result(Response("update_user_role", HTTP_200_OK, "", {}, {}, <<UserResponse(table[user])>>),
                        table)

\* mutant: the guard against self-deactivation is missing
deactivate_user_no_self_guard(token, user_id) ==
    LET current_user == role_checker(ADMIN, token)
        user == get_user_by_id(user_id)
    IN  IF ~current_user.ok THEN Refuse("deactivate_user", current_user)
        ELSE IF user = 0
        THEN Failure(HTTPException("deactivate_user", HTTP_404_NOT_FOUND, "User not found", {}))
        ELSE Result(Response("deactivate_user", HTTP_200_OK,
                             "User " \o str(user_id) \o " deactivated successfully", {}, {}, <<>>),
                    [users EXCEPT ![user] = UserCRUD_deactivate_user(@)])

\* db.delete(user): the rows without the row
UserCRUD_delete_user(table, user) ==
    SubSeq(table, 1, user - 1) \o SubSeq(table, user + 1, Len(table))

\* mutant: the endpoint calls UserCRUD.delete_user
deactivate_user_hard_delete(token, user_id) ==
    LET current_user == role_checker(ADMIN, token)
        user == get_user_by_id(user_id)
    IN  IF ~current_user.ok THEN Refuse("deactivate_user", current_user)
        ELSE IF user_id = users[current_user.uid].id
        THEN Failure(HTTPException("deactivate_user", HTTP_400_BAD_REQUEST,
                                   "Cannot deactivate your own account", {}))
        ELSE IF user = 0
        THEN Failure(HTTPException("deactivate_user", HTTP_404_NOT_FOUND, "User not found", {}))
        ELSE Result(Response("deactivate_user", HTTP_200_OK,
                             "User " \o str(user_id) \o " deactivated successfully", {}, {}, <<>>),
                    UserCRUD_delete_user(users, user))

deactivate_user(token, user_id) ==
    LET current_user == role_checker(ADMIN, token)
        user == get_user_by_id(user_id)
    IN  IF ~current_user.ok THEN Refuse("deactivate_user", current_user)
        ELSE IF user_id = users[current_user.uid].id
        THEN Failure(HTTPException("deactivate_user", HTTP_400_BAD_REQUEST,
                                   "Cannot deactivate your own account", {}))
        ELSE IF user = 0
        THEN Failure(HTTPException("deactivate_user", HTTP_404_NOT_FOUND, "User not found", {}))
        ELSE Result(Response("deactivate_user", HTTP_200_OK,
                             "User " \o str(user_id) \o " deactivated successfully", {}, {}, <<>>),
                    [users EXCEPT ![user] = UserCRUD_deactivate_user(@)])

(******************************* steps *************************************)
\* one request: the table is committed, the response goes out and the client
\* stores the tokens it was sent; the session of the request is opened and
\* closed within the step
Request(result) ==
    /\ users' = result.users
    /\ resp' = result.resp
    /\ tokens' = Receive(result.resp.tokens)
    /\ UNCHANGED <<now, ticks, db, drawn>>

\* datetime.utcnow() moves on between requests
Tick ==
    /\ ticks < MaxTicks
    /\ \E t \in Instants : t > now /\ now' = t
    /\ ticks' = ticks + 1
    /\ UNCHANGED <<users, tokens, resp, db, drawn>>

UserIds == 1..(Cardinality(Emails) + 1)
\* a profile update that sets nothing, or a username that is too short
UpdateData == {<< >>, [username |-> UnShort]}
Pages == {<<0, 2>>, <<1, 1>>}

\* the inputs of a request are enumerated only when its dependencies let
\* the request through to the handler: a refused request never reads them
Authenticated == {t \in Presented : get_current_user(t).ok}
Admins == {t \in Presented : role_checker(ADMIN, t).ok}

Register == \E e \in Emails, u \in Usernames, p \in NewPasswords, s \in Salts : Request(register(e, u, p, s))
Login == \E e \in Emails, p \in {PwAdmin, PwAlice} : Request(login(e, p))
Refresh == \E t \in Presented : Request(refresh_token(t))
GetProfile == \E t \in Presented : Request(get_current_user_profile(t))
UpdateProfile ==
    \/ \E t \in Authenticated, d \in UpdateData : Request(update_current_user_profile(t, d))
    \/ \E t \in Presented \ Authenticated : Request(update_current_user_profile(t, << >>))
\* the new password is a weak one or the caller's present one
ChangePassword ==
    \/ \E t \in Authenticated, c \in {PwAdmin, PwAlice}, s \in Salts :
          \E n \in {c, PwShort} : Request(change_password(t, c, n, s))
    \/ \E t \in Presented \ Authenticated : Request(change_password(t, PwAdmin, PwAlice, 1))
ListUsers ==
    \/ \E t \in Admins, page \in Pages, scan \in Scans : Request(list_users(t, page[1], page[2], scan))
    \/ \E t \in Presented \ Admins, scan \in Scans : Request(list_users(t, 0, 2, scan))
UpdateUserRole ==
    \/ \E t \in Admins, i \in UserIds, r \in RoleInputs : Request(update_user_role(t, i, r))
    \/ \E t \in Presented \ Admins : Request(update_user_role(t, 2, ADMIN))
DeactivateUser ==
    \/ \E t \in Admins, i \in UserIds : Request(deactivate_user(t, i))
    \/ \E t \in Presented \ Admins : Request(deactivate_user(t, 1))

\* every endpoint, within one second of the clock
Next ==
    \/ Register
    \/ Login
    \/ Refresh
    \/ GetProfile
    \/ UpdateProfile
    \/ ChangePassword
    \/ ListUsers
    \/ UpdateUserRole
    \/ DeactivateUser

Spec == Init /\ [][Next]_vars

\* every endpoint and the clock, for the requests of the first account
RegisterC == \E u \in Usernames : Request(register(AdminEmail, u, PwAlice, 1))
LoginC == \E p \in {PwAdmin, PwShort} : Request(login(AdminEmail, p))
UpdateProfileC == \E t \in Presented : Request(update_current_user_profile(t, [username |-> UnShort]))
ChangePasswordC == \E t \in Presented : Request(change_password(t, PwShort, PwAlice, 1))
ListUsersC == \E t \in Presented, scan \in Scans : Request(list_users(t, 0, 2, scan))
UpdateUserRoleC == \E t \in Presented : Request(update_user_role(t, 1, CFO))
DeactivateUserC == \E t \in Presented, i \in 1..2 : Request(deactivate_user(t, i))

NextClock ==
    \/ RegisterC
    \/ LoginC
    \/ Refresh
    \/ GetProfile
    \/ UpdateProfileC
    \/ ChangePasswordC
    \/ ListUsersC
    \/ UpdateUserRoleC
    \/ DeactivateUserC
    \/ Tick

SpecClock == Init /\ [][NextClock]_vars

(************************ role-gated routes ********************************)
\* role strings a row or a route can hold: the four roles and strings that
\* are not roles (UserCRUD.create_user and require_role validate neither)
RoleStrings == RoleInputs \cup {"", "ADMIN"}

\* a route declared with Depends(require_role(required_role))
role_gated(required_role, token) ==
    LET current_user == role_checker(required_role, token)
    IN  IF ~current_user.ok THEN Refuse("role_gated", current_user)
        ELSE Result(Response("role_gated", HTTP_200_OK, required_role, {}, {},
                             <<UserResponse(users[current_user.uid])>>), users)

RoleGated == \E t \in Presented, r \in RoleStrings : Request(role_gated(r, t))

\* two rows as UserCRUD.create_user stores them, each with any role string,
\* and the token pair a login issued to each
InitRBAC ==
    /\ \E r1 \in RoleStrings, r2 \in RoleStrings :
          users = <<[id |-> 1, email |-> AdminEmail, username |-> UnAdmin,
                     hashed_password |-> hash_password(PwAdmin, 1),
                     role |-> r1, is_active |-> TRUE, is_verified |-> TRUE,
                     created_at |-> 0, last_login |-> 0, api_key |-> None],
                    [id |-> 2, email |-> "a@x.com", username |-> strip(UnAlice),
                     hashed_password |-> hash_password(PwAlice, 1),
                     role |-> r2, is_active |-> TRUE, is_verified |-> FALSE,
                     created_at |-> 0, last_login |-> 0, api_key |-> None]>>
    /\ now = 0
    /\ tokens = TokenPair(users[1]) \cup TokenPair(users[2])
    /\ resp = Response("none", 0, "", {}, {}, << >>)
    /\ ticks = 0
    /\ db = [s \in Sessions |-> Closed]
    /\ drawn = 0

NextRBAC ==
    \/ RoleGated
    \/ ListUsersC
    \/ UpdateUserRoleC
    \/ DeactivateUserC

SpecRBAC == InitRBAC /\ [][NextRBAC]_vars

(************************ requests step by step ****************************)
\* A request in the steps the code takes: get_db opens a session, the
\* handler reads and raises or writes (flush), commits, does its work after
\* the commit (db.refresh, the reload of the expired row, the tokens, the
\* response model) and returns; get_db rolls back on an exception and closes
\* the session in every case.
Fields == DOMAIN users[1]

\* the columns a handler's UPDATE sets and the rows its INSERT adds
Modified(o, table) ==
    {c \in (DOMAIN table) \X Fields : o.users[c[1]][c[2]] # table[c[1]][c[2]]}
Inserted(o, table) == SubSeq(o.users, Len(table) + 1, Len(o.users))

\* mutant: an UPDATE that sets every column of a row the session changed
Committed_whole_row(o, table) ==
    [i \in DOMAIN users |->
        IF \E f \in Fields : <<i, f>> \in Modified(o, table) THEN o.users[i] ELSE users[i]]
    \o Inserted(o, table)

\* db.commit(): the session's changes applied to the table as it is now
Committed(o, table) ==
    [i \in DOMAIN users |->
        [f \in Fields |-> IF <<i, f>> \in Modified(o, table) THEN o.users[i][f] ELSE users[i][f]]]
    \o Inserted(o, table)

\* an exception no handler catches: the 500 of internal_server_error_handler
InternalServerError(op) ==
    HTTPException(op, HTTP_500_INTERNAL_SERVER_ERROR, "Internal Server Error", {})

\* db = SessionLocal(); yield db: the handler starts and does its reads
SessionLocal(s, o) ==
    /\ db[s].pc = "idle"
    /\ db' = [db EXCEPT ![s] = [pc |-> "handler", session |-> "open", before |-> users,
                                out |-> o, resp |-> db[s].resp]]
    /\ UNCHANGED <<users, now, tokens, resp, ticks, drawn>>

\* the request ends: except: db.rollback(); finally: db.close()
Close(s, response) ==
    /\ db' = [db EXCEPT ![s] = [pc |-> "idle", session |-> "closed", before |-> db[s].before,
                                out |-> db[s].out, resp |-> response]]
    /\ resp' = response
    /\ tokens' = Receive(response.tokens)
    /\ UNCHANGED <<now, ticks, drawn>>

\* the handler raises an HTTPException before it writes
HandlerRaises(s) ==
    /\ db[s].pc = "handler"
    /\ db[s].out.resp.status >= HTTP_400_BAD_REQUEST
    /\ Close(s, db[s].out.resp)
    /\ UNCHANGED users

\* a handler that writes nothing returns
HandlerReturns(s) ==
    /\ db[s].pc = "handler"
    /\ db[s].out.resp.status < HTTP_400_BAD_REQUEST
    /\ db[s].out.users = db[s].before
    /\ Close(s, db[s].out.resp)
    /\ UNCHANGED users

\* db.flush(): the INSERT or UPDATE is sent, under the writer lock of the
\* database; the unique index on email refuses a second row (IntegrityError,
\* which nothing catches)
Flush(s) ==
    /\ db[s].pc = "handler"
    /\ db[s].out.resp.status < HTTP_400_BAD_REQUEST
    /\ db[s].out.users # db[s].before
    /\ \A other \in Sessions : db[other].pc # "flushed"
    /\ LET rows == Inserted(db[s].out, db[s].before)
       IN  IF \E i \in DOMAIN rows, j \in DOMAIN users : rows[i].email = users[j].email
           THEN Close(s, InternalServerError(db[s].out.resp.op)) /\ UNCHANGED users
           ELSE /\ db' = [db EXCEPT ![s].pc = "flushed"]
                /\ UNCHANGED <<users, now, tokens, resp, ticks, drawn>>

\* db.commit()
Commit(s) ==
    /\ db[s].pc = "flushed"
    /\ users' = Committed(db[s].out, db[s].before)
    /\ db' = [db EXCEPT ![s].pc = "committed"]
    /\ UNCHANGED <<now, tokens, resp, ticks, drawn>>

\* the handler returns after its commit and the response is sent
Respond(s) ==
    /\ db[s].pc = "committed"
    /\ Close(s, db[s].out.resp)
    /\ UNCHANGED users

\* a fault between the flush and the end of the commit (the connection is
\* lost, the commit fails): the exception reaches get_db, which rolls back
RaiseBeforeCommit(s) ==
    /\ db[s].pc = "flushed"
    /\ Close(s, InternalServerError(db[s].out.resp.op))
    /\ UNCHANGED users

\* a fault after the commit (db.refresh or the reload of the expired row
\* fails, create_access_token raises): get_db rolls back an empty transaction
RaiseAfterCommit(s) ==
    /\ db[s].pc = "committed"
    /\ Close(s, InternalServerError(db[s].out.resp.op))
    /\ UNCHANGED users

\* the requests that are followed step by step
Handlers ==
    {register(e, UnAlice, p, 1) : e \in Emails, p \in NewPasswords}
    \cup {login(e, p) : e \in Emails, p \in {PwAdmin, PwAlice}}
    \cup {get_current_user_profile(t) : t \in Presented}
    \cup {deactivate_user(t, i) : t \in Presented, i \in 1..2}

\* one request at a time, with faults
NextFault ==
    \/ \E o \in Handlers : SessionLocal(1, o)
    \/ HandlerRaises(1)
    \/ HandlerReturns(1)
    \/ Flush(1)
    \/ Commit(1)
    \/ Respond(1)
    \/ RaiseBeforeCommit(1)
    \/ RaiseAfterCommit(1)

SpecFault == Init /\ [][NextFault]_vars

\* the requests that race: registrations of one email, and logins
Racers ==
    {register("a@x.com", UnAlice, p, 1) : p \in NewPasswords}
    \cup {login(e, PwAlice) : e \in Emails}

\* two requests at a time, without faults
NextRace ==
    \/ \E s \in Sessions, o \in Racers : SessionLocal(s, o)
    \/ \E s \in Sessions : HandlerRaises(s)
    \/ \E s \in Sessions : Flush(s)
    \/ \E s \in Sessions : Commit(s)
    \/ \E s \in Sessions : Respond(s)

SpecRace == Init /\ [][NextRace]_vars

(************************ password changes *********************************)
\* bcrypt draws a fresh salt for every hash
FreshSalts == {1, 2}

ChangePasswordAny ==
    \E t \in Presented, c \in Passwords, n \in Passwords, salt \in FreshSalts :
        Request(change_password(t, c, n, salt))

\* the admin and a registered viewer, each holding the pair of a login
InitPassword ==
    /\ users = <<[id |-> 1, email |-> AdminEmail, username |-> UnAdmin,
                  hashed_password |-> hash_password(PwAdmin, 1),
                  role |-> ADMIN, is_active |-> TRUE, is_verified |-> TRUE,
                  created_at |-> 0, last_login |-> 0, api_key |-> None],
                 [id |-> 2, email |-> "a@x.com", username |-> strip(UnAlice),
                  hashed_password |-> hash_password(PwAlice, 1),
                  role |-> VIEWER, is_active |-> TRUE, is_verified |-> FALSE,
                  created_at |-> 0, last_login |-> 0, api_key |-> None]>>
    /\ now = 0
    /\ tokens = TokenPair(users[1]) \cup TokenPair(users[2])
    /\ resp = Response("none", 0, "", {}, {}, << >>)
    /\ ticks = 0
    /\ db = [s \in Sessions |-> Closed]
    /\ drawn = 0

NextPassword ==
    \/ ChangePasswordAny
    \/ Login
    \/ DeactivateUserC

SpecPassword == InitPassword /\ [][NextPassword]_vars

(********************* an admin and the user at once ***********************)
\* the admin's writes to the second row, and the requests of its owner
AdminWrites ==
    {deactivate_user(t, 2) : t \in tokens} \cup {update_user_role(t, 2, CFO) : t \in tokens}
OwnWrites ==
    {login("a@x.com", PwAlice)}
    \cup {update_current_user_profile(t, [username |-> UnShort]) : t \in tokens}
    \cup {change_password(t, PwAlice, PwAdmin, 2) : t \in tokens}

\* the accounts of InitPassword, some time after their logins
InitLost ==
    /\ users = <<[id |-> 1, email |-> AdminEmail, username |-> UnAdmin,
                  hashed_password |-> hash_password(PwAdmin, 1),
                  role |-> ADMIN, is_active |-> TRUE, is_verified |-> TRUE,
                  created_at |-> 0, last_login |-> 0, api_key |-> None],
                 [id |-> 2, email |-> "a@x.com", username |-> strip(UnAlice),
                  hashed_password |-> hash_password(PwAlice, 1),
                  role |-> VIEWER, is_active |-> TRUE, is_verified |-> FALSE,
                  created_at |-> 0, last_login |-> 0, api_key |-> None]>>
    /\ now = 1
    /\ tokens = {create_access_token([sub |-> str(users[i].id), email |-> users[i].email,
                                      role |-> users[i].role], 0) : i \in DOMAIN users}
    /\ resp = Response("none", 0, "", {}, {}, << >>)
    /\ ticks = 0
    /\ db = [s \in Sessions |-> Closed]
    /\ drawn = 0

\* two requests at a time, without faults
NextLost ==
    \/ \E o \in AdminWrites : SessionLocal(1, o)
    \/ \E o \in OwnWrites : SessionLocal(2, o)
    \/ \E s \in Sessions : HandlerRaises(s)
    \/ \E s \in Sessions : HandlerReturns(s)
    \/ \E s \in Sessions : Flush(s)
    \/ \E s \in Sessions : Commit(s)
    \/ \E s \in Sessions : Respond(s)

SpecLost == InitLost /\ [][NextLost]_vars

(*********************** access tokens by themselves ***********************)
\* the lifetimes asked for: none, zero, a minute, an hour, a minute ago
Deltas == {<< >>, timedelta(0), timedelta(60), timedelta(3600), timedelta(-60)}
TokenData == {[sub |-> str(i), email |-> e, role |-> r] :
                 i \in 1..2, e \in {AdminEmail}, r \in {ADMIN, VIEWER}}

\* a call of create_access_token; the response records expires_delta
CreateAccessToken ==
    \E data \in TokenData, expires_delta \in Deltas :
        LET token == create_access_token_expires_delta(data, expires_delta, now)
        IN  /\ resp' = Response("create_access_token", 0, "", {}, {token}, expires_delta)
            /\ tokens' = {token}
            /\ UNCHANGED <<users, now, ticks, db, drawn>>

NextToken ==
    \/ CreateAccessToken
    \/ Tick

SpecToken == Init /\ [][NextToken]_vars

(************************ tokens over time *********************************)
\* the requests that could be thought to end a token's life, for the second
\* account, and the clock
LoginR == \E e \in Emails : Request(login(e, PwAlice))
ChangePasswordR == \E t \in Presented : Request(change_password(t, PwAlice, PwAdmin, 2))
UpdateUserRoleR == \E t \in Presented : Request(update_user_role(t, 2, CFO))
DeactivateUserR == \E t \in Presented : Request(deactivate_user(t, 2))

NextRevoke ==
    \/ LoginR
    \/ Refresh
    \/ ChangePasswordR
    \/ UpdateUserRoleR
    \/ DeactivateUserR
    \/ Tick

SpecRevoke == InitPassword /\ [][NextRevoke]_vars

(************************ rows over time ***********************************)
\* every endpoint and the clock, with registrations that succeed
RegisterI == \E e \in Emails : Request(register(e, UnAlice, PwAlice, 1))

NextIds ==
    \/ RegisterI
    \/ NextClock

SpecIds == Init /\ [][NextIds]_vars

(************************ user.py: the store by itself *********************)
\* UserCRUD called directly, as the demonstration at the end of user.py does:
\* one session, whose queries see the rows as the last flush left them.
MaxDraws == 4

\* secrets.token_hex(32) and bcrypt.gensalt() read the random source of the
\* operating system: the n-th draw is a value that was not drawn before
generate_api_key(n) == "key-" \o str(n)
gensalt(n) == n

\* UserUpdate(**body): the declared fields of the body, the others are ignored
UserUpdate(body) == [f \in (DOMAIN body) \cap {"username"} |-> body[f]]

UserCRUD_generate_api_key_for_user(user, api_key) == [user EXCEPT !.api_key = api_key]

\* mutant: the lookup does not filter on is_active
get_user_by_api_key_any(api_key) ==
    IF \E i \in DOMAIN users : users[i].api_key = api_key
    THEN CHOOSE i \in DOMAIN users : users[i].api_key = api_key
    ELSE 0

\* query.filter(api_key == k, is_active == True).first(): the id or 0
get_user_by_api_key(api_key) ==
    IF \E i \in DOMAIN users : users[i].api_key = api_key /\ users[i].is_active
    THEN CHOOSE i \in DOMAIN users : users[i].api_key = api_key /\ users[i].is_active
    ELSE 0

\* the constraints of the table, checked at db.flush(): primary key, unique
\* email, unique api_key (NULL is not a key)
Unique(table) ==
    \A i, j \in DOMAIN table :
        i # j => /\ table[i].id # table[j].id
                 /\ table[i].email # table[j].email
                 /\ (table[i].api_key = None \/ table[i].api_key # table[j].api_key)

\* a call and its flush: what it returned, or the IntegrityError of the
\* flush and the rollback
Call(op, table, detail, body) ==
    /\ users' = (IF Unique(table) THEN table ELSE users)
    /\ resp' = (IF Unique(table) THEN Response(op, 0, detail, {}, {}, body)
                ELSE Response(op, 0, "IntegrityError", {}, {}, << >>))
    /\ UNCHANGED <<now, tokens, ticks, db>>

\* keyword arguments of update_user: attributes of the row and a name that
\* is not one
Kwargs ==
    {[username |-> strip(UnAlice)], [role |-> CFO, is_verified |-> TRUE],
     [hashed_password |-> hash_password(PwShort, 1)], [nickname |-> "al"]}

StoreCreate ==
    /\ drawn < MaxDraws
    /\ \E e \in Emails :
          LET user == create_user(e, strip(UnAlice), PwAlice, VIEWER, FALSE, gensalt(drawn + 1), now)
          IN  Call("create_user", Append(users, user), "", <<user>>)
    /\ drawn' = drawn + 1

StoreUpdate ==
    /\ \E i \in DOMAIN users, kwargs \in Kwargs :
          LET user == update_user(users[i], kwargs)
          IN  Call("update_user", [users EXCEPT ![i] = user], "", <<user>>)
    /\ UNCHANGED drawn

StoreDeactivate ==
    /\ \E i \in DOMAIN users :
          LET user == UserCRUD_deactivate_user(users[i])
          IN  Call("deactivate_user", [users EXCEPT ![i] = user], "", <<user>>)
    /\ UNCHANGED drawn

StoreGenerateApiKey ==
    /\ drawn < MaxDraws
    /\ \E i \in DOMAIN users :
          LET api_key == generate_api_key(drawn + 1)
              user == UserCRUD_generate_api_key_for_user(users[i], api_key)
          IN  Call("generate_api_key_for_user", [users EXCEPT ![i] = user], api_key, <<user>>)
    /\ drawn' = drawn + 1

\* the keys a client can present: those drawn so far and one never drawn
Keys == {generate_api_key(n) : n \in 1..(MaxDraws + 1)}

StoreGetByApiKey ==
    /\ \E api_key \in Keys :
          LET user == get_user_by_api_key(api_key)
          IN  Call("get_user_by_api_key", users, api_key,
                   IF user = 0 THEN << >> ELSE <<users[user]>>)
    /\ UNCHANGED drawn

\* the admin row, hashed with the first draw
InitStore ==
    /\ users = <<[id |-> 1, email |-> AdminEmail, username |-> UnAdmin,
                  hashed_password |-> hash_password(PwAdmin, gensalt(1)),
                  role |-> ADMIN, is_active |-> TRUE, is_verified |-> TRUE,
                  created_at |-> 0, last_login |-> NoTime, api_key |-> None]>>
    /\ now = 0
    /\ tokens = {}
    /\ resp = Response("none", 0, "", {}, {}, << >>)
    /\ ticks = 0
    /\ db = [s \in Sessions |-> Closed]
    /\ drawn = 1

NextStore ==
    \/ StoreCreate
    \/ StoreUpdate
    \/ StoreDeactivate
    \/ StoreGenerateApiKey
    \/ StoreGetByApiKey

SpecStore == InitStore /\ [][NextStore]_vars

(************************ security.py: passwords by themselves *************)
\* validate_password_strength, hash_password and verify_password applied to
\* passwords of every length from 0 to 12 and every combination of character
\* classes, and to passwords longer than bcrypt reads
MaxLen == 3

RECURSIVE Strings(_)
Strings(n) ==
    IF n = 0 THEN {<< >>}
    ELSE Strings(n - 1)
         \cup {Append(v, c) : v \in Strings(n - 1), c \in {"A", "a", "1", "!", " "}}

Padding == {<< >>, <<"b", "b", "b", "b", "b">>, <<" ", " ", " ", " ", " ", " ", " ", " ", " ">>}

\* a strong password of 73 characters that ends in c
Long(c) == [i \in 1..(truncate_size + 1) |->
              IF i <= Len(PwAlice) THEN PwAlice[i] ELSE IF i <= truncate_size THEN "b" ELSE c]

\* the password the calls are about
Password == IF resp.op = "password" THEN resp.body[1] ELSE resp.body[1].password

\* (is_valid, message) as the function returns it; the message is the set
\* of the errors that "; ".join(errors) strings together
Validate ==
    /\ resp.op = "password"
    /\ resp' = Response("validate_password_strength", 0, "", {}, {},
                        <<[password |-> Password,
                           is_valid |-> validate_password_strength(Password) = {},
                           message |-> validate_password_strength(Password)]>>)
    /\ UNCHANGED <<users, now, tokens, ticks, db, drawn>>

\* hashed = hash_password(password), with the next draw as its salt
HashPassword ==
    /\ drawn < MaxDraws
    /\ resp.op \in {"password", "hash_password"}
    /\ resp' = Response("hash_password", 0, "", {}, {},
                        <<[password |-> Password,
                           hashed |-> hash_password(Password, gensalt(drawn + 1))]>>)
    /\ drawn' = drawn + 1
    /\ UNCHANGED <<users, now, tokens, ticks, db>>

\* verify_password(plain_password, hashed) for the same password, another
\* one, and one that differs from a long one in its last character
VerifyPassword ==
    /\ resp.op = "hash_password"
    /\ \E plain_password \in {Password, PwShort, Long("y")} :
          resp' = Response("verify_password", 0, "", {}, {},
                           <<[password |-> Password, hashed |-> resp.body[1].hashed,
                              plain_password |-> plain_password,
                              result |-> verify_password(plain_password, resp.body[1].hashed)]>>)
    /\ UNCHANGED <<users, now, tokens, ticks, db, drawn>>

InitSecurity ==
    /\ users = << >>
    /\ now = 0
    /\ tokens = {}
    /\ \E password \in {v \o pad : v \in Strings(MaxLen), pad \in Padding} \cup {Long("x")} :
          resp = Response("password", 0, "", {}, {}, <<password>>)
    /\ ticks = 0
    /\ db = [s \in Sessions |-> Closed]
    /\ drawn = 0

NextSecurity ==
    \/ Validate
    \/ HashPassword
    \/ VerifyPassword

SpecSecurity == InitSecurity /\ [][NextSecurity]_vars

(************************ startup of the server ****************************)
\* The process starts: security.py is imported and reads its configuration
\* from the environment, startup_event checks the database and creates the
\* tables, and the server signs tokens with the key it read.
\* the values SECRET_KEY can have in the environment (None: not set)
SecretKeys ==
    {None, "", SECRET_KEY, "changeme", "<your-secret-key>",
     "9f2c51d7a0e4468bb3f0c6a1d2e8b7450c3d9e1f"}
ExpireMinutes == {None, "15", "30"}

\* os.getenv(name, default)
getenv(value, default) == IF value = None THEN default ELSE value

Startup(pc, environ, key, log) ==
    Response("startup", 0, pc, log, {}, <<[environ |-> environ, SECRET_KEY |-> key]>>)

\* import of backend.core.security: lines 179-189
ImportSecurity ==
    /\ resp.op = "environ"
    /\ LET key == getenv(resp.body[1].SECRET_KEY, "your-secret-key-change-in-production")
       IN  resp' = Startup("imported", resp.body[1], key,
                           IF key = "your-secret-key-change-in-production"
                           THEN {"WARNING: Using default SECRET_KEY. Change this in production!"}
                           ELSE {})
    /\ UNCHANGED <<users, now, tokens, ticks, db, drawn>>

\* startup_event: check_connection() succeeds or fails
CheckConnection ==
    /\ resp.op = "startup" /\ resp.detail = "imported"
    /\ \E connected \in BOOLEAN :
          resp' = Startup("checked", resp.body[1].environ, resp.body[1].SECRET_KEY,
                          resp.headers \cup (IF connected THEN {}
                                             ELSE {"Server will start but database operations may fail"}))
    /\ UNCHANGED <<users, now, tokens, ticks, db, drawn>>

\* startup_event: init_db() returns or raises; the server starts either way
InitDb ==
    /\ resp.op = "startup" /\ resp.detail = "checked"
    /\ \E raised \in BOOLEAN :
          resp' = Startup("serving", resp.body[1].environ, resp.body[1].SECRET_KEY,
                          resp.headers \cup (IF raised
                                             THEN {"Server will continue but some features may not work"}
                                             ELSE {}))
    /\ UNCHANGED <<users, now, tokens, ticks, db, drawn>>

\* the server signs a token with the key it read
Serve ==
    /\ resp.op = "startup" /\ resp.detail = "serving"
    /\ tokens = {}
    /\ LET value == getenv(resp.body[1].environ.ACCESS_TOKEN_EXPIRE_MINUTES, "30")
           minutes == CASE value = "15" -> 15 [] value = "30" -> 30
           to_encode == [sub |-> "1", email |-> AdminEmail, role |-> ADMIN,
                         exp |-> now + minutes * 60, iat |-> now, type |-> "access"]
       IN  tokens' = {[payload |-> to_encode, sig |-> Sign(to_encode, resp.body[1].SECRET_KEY)]}
    /\ UNCHANGED <<users, now, resp, ticks, db, drawn>>

InitStartup ==
    /\ users = << >>
    /\ now = 0
    /\ tokens = {}
    /\ \E key \in SecretKeys, minutes \in ExpireMinutes :
          resp = Response("environ", 0, "", {}, {},
                          <<[SECRET_KEY |-> key, ACCESS_TOKEN_EXPIRE_MINUTES |-> minutes]>>)
    /\ ticks = 0
    /\ db = [s \in Sessions |-> Closed]
    /\ drawn = 0

NextStartup ==
    \/ ImportSecurity
    \/ CheckConnection
    \/ InitDb
    \/ Serve

SpecStartup == InitStartup /\ [][NextStartup]_vars

(************************ init_phase1.py: main *****************************)
\* the steps of main, in the order of its calls
Steps == <<"check_environment", "install_dependencies", "initialize_database",
           "create_admin_user", "verify_system", "print_next_steps">>

\* the script: where it is, its exit code once it is at "exit", what it has
\* printed of main's own messages, and the calls made with what they gave
InitScript(pc, code, log, state) == Response("init_phase1", code, pc, log, {}, <<state>>)

\* check_environment with .env and python-dotenv in place: lines 170-195
check_environment(environ) ==
    LET secret_key == getenv(environ.SECRET_KEY, "")
    IN  IF secret_key = "" \/ secret_key = "your-secret-key-change-in-production"
        THEN "False" ELSE "True"

\* main after the call of a step: result is what the call returned, or the
\* exception that came out of it; a step that is fatal ends the script when
\* it returns False, the others print message and go on
main(step, next, result, fatal, message) ==
    LET state == [resp.body[1] EXCEPT !.ran = Append(@, <<step, result>>)]
    IN  CASE result = "KeyboardInterrupt"
               -> InitScript("exit", 0, resp.headers \cup {"Initialization cancelled by user"}, state)
          [] result = "Exception"
               -> InitScript("exit", 1, resp.headers \cup {"Unexpected error during initialization"}, state)
          [] result = "False" /\ fatal
               -> InitScript("exit", 1, resp.headers \cup {message}, state)
          [] result = "False" /\ ~fatal
               -> InitScript(next, 0, resp.headers \cup {message}, state)
          [] result = "True" /\ next = "exit"
               -> InitScript("exit", 0, resp.headers \cup {message}, state)
          [] result = "True" /\ next # "exit"
               -> InitScript(next, 0, resp.headers, state)

At(step) == resp.op = "init_phase1" /\ resp.detail = step

CheckEnvironment ==
    /\ At("check_environment")
    /\ \E result \in {check_environment(resp.body[1].environ), "KeyboardInterrupt"} :
          resp' = main("check_environment", "install_dependencies", result, TRUE,
                       "Environment check failed")
    /\ UNCHANGED <<users, now, tokens, ticks, db, drawn>>

InstallDependencies ==
    /\ At("install_dependencies")
    /\ \E result \in {"True", "False", "Exception", "KeyboardInterrupt"} :
          resp' = main("install_dependencies", "initialize_database", result, TRUE,
                       "Dependency check failed")
    /\ UNCHANGED <<users, now, tokens, ticks, db, drawn>>

InitializeDatabase ==
    /\ At("initialize_database")
    /\ \E result \in {"True", "False", "KeyboardInterrupt"} :
          resp' = main("initialize_database", "create_admin_user", result, TRUE,
                       "Database initialization failed")
    /\ UNCHANGED <<users, now, tokens, ticks, db, drawn>>

\* create_admin_user catches every exception, KeyboardInterrupt included; it
\* returns the admin it made, the admin it found, or (False, None)
CreateAdminUser ==
    /\ At("create_admin_user")
    /\ \E admin_success \in {"True", "False"}, found \in BOOLEAN :
          LET next == main("create_admin_user", "verify_system", admin_success, FALSE,
                           "Admin user creation skipped or failed")
              admin_info == IF admin_success = "False" THEN None
                            ELSE IF found THEN "existing" ELSE "created"
          IN  resp' = [next EXCEPT !.body[1].admin_info = admin_info]
    /\ UNCHANGED <<users, now, tokens, ticks, db, drawn>>

VerifySystem ==
    /\ At("verify_system")
    /\ \E result \in {"True", "False", "KeyboardInterrupt"} :
          resp' = main("verify_system", "print_next_steps", result, FALSE,
                       "System verification failed")
    /\ UNCHANGED <<users, now, tokens, ticks, db, drawn>>

\* print_next_steps, then the last print of main and the end of the process
PrintNextSteps ==
    /\ At("print_next_steps")
    /\ \E result \in {"True", "Exception", "KeyboardInterrupt"} :
          resp' = main("print_next_steps", "exit", result, FALSE,
                       "Initialization complete! You can now start the server.")
    /\ UNCHANGED <<users, now, tokens, ticks, db, drawn>>

\* the script is started in some environment, with no table yet
InitMain ==
    /\ users = << >>
    /\ now = 0
    /\ tokens = {}
    /\ \E key \in SecretKeys :
          resp = InitScript("check_environment", 0, {},
                            [environ |-> [SECRET_KEY |-> key], ran |-> << >>, admin_info |-> None])
    /\ ticks = 0
    /\ db = [s \in Sessions |-> Closed]
    /\ drawn = 0

NextMain ==
    \/ CheckEnvironment
    \/ InstallDependencies
    \/ InitializeDatabase
    \/ CreateAdminUser
    \/ VerifySystem
    \/ PrintNextSteps

SpecMain == InitMain /\ [][NextMain]_vars

(******************************* claims ************************************)
AllEmails == Emails \cup {"nobody@x.com"}
AllUpdateData == UpdateData \cup {[username |-> v] : v \in Usernames \cup {UnAdmin}}

\* what the admin endpoints answer to one request
AdminResults(t) ==
    {list_users(t, page[1], page[2], scan) : page \in Pages, scan \in Scans}
    \cup {update_user_role(t, i, r) : i \in UserIds, r \in RoleInputs}
    \cup {deactivate_user(t, i) : i \in UserIds}

\* what the bearer-authenticated endpoints answer to one request
BearerResults(t) ==
    AdminResults(t)
    \cup {get_current_user_profile(t)}
    \cup {update_current_user_profile(t, d) : d \in AllUpdateData}
    \cup {change_password(t, c, n, 1) : c \in Passwords, n \in Passwords}

\* C1: list users, updateRole and deactivateUser take effect only for an
\* authenticated active caller whose stored role is admin; for an
\* authenticated caller whose role is viewer, analyst or cfo each of them is
\* refused with 403 and the table is unchanged.
C1_AdminOnly ==
    \A t \in Presented : \A o \in AdminResults(t) :
        LET caller == get_current_user(t)
        IN  /\ (o.resp.status = HTTP_200_OK \/ o.users # users)
                => (caller.ok /\ users[caller.uid].is_active /\ users[caller.uid].role = ADMIN)
            /\ (caller.ok /\ users[caller.uid].role \in {VIEWER, ANALYST, CFO})
                => (o.resp.status = HTTP_403_FORBIDDEN /\ o.users = users)

C1_Witness ==
    /\ resp.op = "update_user_role"
    /\ resp.status = HTTP_403_FORBIDDEN
    /\ \E t \in tokens : get_current_user(t).ok /\ users[get_current_user(t).uid].role = CFO

\* C2: every row that register adds has role viewer, is_verified false,
\* is_active true and last_login null, whatever the request holds, and
\* register leaves the rows that were there untouched.
C2_RegisterDefaults ==
    \A e \in AllEmails, u \in Usernames, p \in Passwords, s \in Salts :
        LET o == register(e, u, p, s)
            n == Len(users) + 1
        IN  o.users # users
            => /\ o.resp.status = HTTP_201_CREATED
               /\ Len(o.users) = n
               /\ SubSeq(o.users, 1, Len(users)) = users
               /\ o.users[n].role = VIEWER
               /\ o.users[n].is_verified = FALSE
               /\ o.users[n].is_active = TRUE
               /\ o.users[n].last_login = NoTime

C2_Witness == resp.op = "register" /\ resp.status = HTTP_201_CREATED /\ Len(users) = 2

\* C3: no two rows share an email, and a register request that passes
\* validation and names the email of an existing row, deactivated or not,
\* is answered 409 and adds no row.
C3_EmailUnique ==
    /\ \A i, j \in DOMAIN users : i # j => users[i].email # users[j].email
    /\ \A e \in AllEmails, u \in Usernames, p \in Passwords :
        LET o == register(e, u, p, 1)
        IN  (\E i \in DOMAIN users : users[i].email = e)
                => /\ o.users = users
                   /\ o.resp.status \in {HTTP_409_CONFLICT, HTTP_422_UNPROCESSABLE_ENTITY}
                   /\ (validate_username(u) /\ validate_password(p)) => o.resp.status = HTTP_409_CONFLICT

C3_Witness ==
    /\ resp.op = "register"
    /\ resp.status = HTTP_409_CONFLICT
    /\ \E i \in DOMAIN users : ~users[i].is_active

\* C4: a login with an unknown email and a login with a known email and a
\* wrong password get the same response: status, detail and headers.
C4_SameFailure ==
    \A e1 \in AllEmails, e2 \in AllEmails, p1 \in Passwords, p2 \in Passwords :
        ((\A i \in DOMAIN users : users[i].email # e1)
         /\ (\E i \in DOMAIN users : users[i].email = e2
                                      /\ ~verify_password(p2, users[i].hashed_password)))
        => /\ login(e1, p1).resp = login(e2, p2).resp
           /\ login(e1, p1).resp.status = HTTP_401_UNAUTHORIZED

C4_Witness ==
    /\ resp.op = "login"
    /\ resp.status = HTTP_401_UNAUTHORIZED
    /\ resp.detail = "Incorrect email or password"
    /\ Len(users) = 1

\* C5: a login with the right password of an active user sets that row's
\* last_login to the clock and returns one access and one refresh token with
\* sub = the user's id, the access token with the stored email and role; a
\* failing login returns no token and leaves the table as it was.
C5_LoginEffect ==
    \A e \in AllEmails, p \in Passwords :
        LET o == login(e, p)
            good == {i \in DOMAIN users : /\ users[i].email = e
                                          /\ verify_password(p, users[i].hashed_password)
                                          /\ users[i].is_active}
        IN  /\ \A i \in good :
                /\ o.resp.status = HTTP_200_OK
                /\ o.users = [users EXCEPT ![i].last_login = now]
                /\ {t.payload.type : t \in o.resp.tokens} = {"access", "refresh"}
                /\ Cardinality(o.resp.tokens) = 2
                /\ \A t \in o.resp.tokens :
                    /\ t.payload.sub = str(users[i].id)
                    /\ t.payload.type = "access"
                        => (t.payload.email = users[i].email /\ t.payload.role = users[i].role)
            /\ good = {} => (o.resp.status # HTTP_200_OK /\ o.resp.tokens = {} /\ o.users = users)

C5_Witness ==
    /\ resp.op = "login"
    /\ resp.status = HTTP_200_OK
    /\ \E i \in DOMAIN users : users[i].last_login = now /\ users[i].role = VIEWER

\* C6 (as claimed): a correctly signed token is decoded if and only if
\* now < exp.
C6_ValidIffBeforeExp ==
    \A t \in tokens : (decode_token(t, now) # NoPayload) <=> (now < t.payload.exp)

\* C7 (as claimed): refresh succeeds only for a correctly signed, unexpired
\* (now < exp) token of type refresh whose subject is an existing active user.
C7_RefreshOnlyIfValid ==
    \A t \in Presented :
        refresh_token(t).resp.status = HTTP_200_OK
        => /\ t.sig = Sign(t.payload, SECRET_KEY)
           /\ now < t.payload.exp
           /\ t.payload.type = "refresh"
           /\ int(t.payload.sub) \in DOMAIN users
           /\ users[int(t.payload.sub)].is_active

\* C8 (as claimed): a bearer-authenticated endpoint answers 401 to a token
\* that is not of type access.
C8_BearerNeedsAccessToken ==
    \A t \in Presented :
        t.payload.type # "access"
        => \A o \in BearerResults(t) : o.resp.status = HTTP_401_UNAUTHORIZED

\* every request made for the account u is answered 401
RefusedFor(u) ==
    /\ \A p \in Passwords : login(users[u].email, p).resp.status = HTTP_401_UNAUTHORIZED
    /\ \A t \in Presented :
        t.payload.sub = str(users[u].id)
        => /\ refresh_token(t).resp.status = HTTP_401_UNAUTHORIZED
           /\ \A o \in BearerResults(t) : o.resp.status = HTTP_401_UNAUTHORIZED

\* what any endpoint answers to any request
AllResults ==
    {register(e, u, p, 1) : e \in AllEmails, u \in Usernames, p \in Passwords}
    \cup {login(e, p) : e \in AllEmails, p \in Passwords}
    \cup {refresh_token(t) : t \in Presented}
    \cup UNION {BearerResults(t) : t \in Presented}

\* C9: once a user is deactivated, every login, refresh and bearer request
\* for that user is answered 401, also with tokens issued before the
\* deactivation, and no request makes the user active again.
C9_DeactivatedStaysOut ==
    \A u \in DOMAIN users :
        ~users[u].is_active
        => /\ RefusedFor(u)
           /\ \A o \in AllResults : ~o.users[u].is_active

C9_Witness ==
    /\ resp.status = HTTP_401_UNAUTHORIZED
    /\ resp.detail = "Inactive user"
    /\ \E t \in tokens : /\ decode_token(t, now) # NoPayload
                         /\ ~users[int(t.payload.sub)].is_active

\* C10: deactivateUser by an admin on the admin's own id is answered 400 and
\* on an id that matches no row 404; either way the table is unchanged.
C10_DeactivateGuards ==
    \A t \in Presented, i \in UserIds :
        LET caller == get_current_user(t)
            o == deactivate_user(t, i)
        IN  (caller.ok /\ users[caller.uid].role = ADMIN)
            => /\ i = users[caller.uid].id
                    => /\ o.resp.status = HTTP_400_BAD_REQUEST
                       /\ o.users = users
                       /\ o.users[caller.uid].is_active
               /\ i \notin DOMAIN users
                    => (o.resp.status = HTTP_404_NOT_FOUND /\ o.users = users)

C10_Witness ==
    /\ resp.op = "deactivate_user"
    /\ resp.status = HTTP_400_BAD_REQUEST
    /\ Len(users) = 2

\* the four roles and their ranks, as the specification orders them
C11_Roles == {"viewer", "analyst", "cfo", "admin"}
C11_rank(r) == CASE r = "viewer" -> 0 [] r = "analyst" -> 1 [] r = "cfo" -> 2 [] r = "admin" -> 3

\* C11: for all 16 pairs of roles, has_permission(r1, r2) is
\* rank(r1) >= rank(r2) under viewer < analyst < cfo < admin, and a route
\* gated on r2 lets a caller of role r1 through exactly in that case.
C11_PermissionIsRankOrder ==
    /\ \A r1 \in C11_Roles, r2 \in C11_Roles :
          has_permission(r1, r2) <=> (C11_rank(r1) >= C11_rank(r2))
    /\ \A t \in Presented, r2 \in C11_Roles :
          LET caller == get_current_user(t)
          IN  (caller.ok /\ users[caller.uid].role \in C11_Roles)
              => (role_gated(r2, t).resp.status = HTTP_200_OK
                    <=> C11_rank(users[caller.uid].role) >= C11_rank(r2))

C11_Witness ==
    /\ resp.op = "role_gated"
    /\ resp.status = HTTP_403_FORBIDDEN
    /\ resp.detail = "Insufficient permissions. Required role: cfo"
    /\ \E i \in DOMAIN users : users[i].role = ANALYST

C13_RolesStayValid ==
    /\ \A i \in DOMAIN users : users[i].role \in C11_Roles
    /\ \A t \in Presented, i \in UserIds, r \in RoleStrings :
          LET o == update_user_role(t, i, r)
          IN  role_checker(ADMIN, t).ok
              => /\ r \notin C11_Roles
                      => (o.resp.status = HTTP_422_UNPROCESSABLE_ENTITY /\ o.users = users)
                 /\ (r \in C11_Roles /\ i \notin DOMAIN users)
                      => (o.resp.status = HTTP_404_NOT_FOUND /\ o.users = users)
                 /\ (r \in C11_Roles /\ i \in DOMAIN users)
                      => /\ o.resp.status = HTTP_200_OK
                         /\ o.users = [users EXCEPT ![i].role = r]

C13_Witness ==
    /\ resp.op = "update_user_role"
    /\ resp.status = HTTP_200_OK
    /\ Len(users) = 2
    /\ users[2].role = ANALYST
    /\ users[1].role = ADMIN

\* C14: a registered user starts as viewer; a stored role changes only by a
\* successful updateRole, to the role that request names; getProfile returns
\* the stored role, and the access token of a login or refresh carries the
\* stored role, while a token issued earlier keeps the role claim it was
\* issued with.
C14_RoleEndToEnd ==
    /\ \A o \in AllResults :
          /\ \A u \in DOMAIN users :
                o.users[u].role # users[u].role
                => /\ o.resp.op = "update_user_role"
                   /\ o.resp.status = HTTP_200_OK
                   /\ o.resp.body[1].id = u
                   /\ o.resp.body[1].role = o.users[u].role
          /\ Len(o.users) > Len(users) => o.users[Len(o.users)].role = VIEWER
    /\ \A t \in Presented :
          LET caller == get_current_user(t)
              o == get_current_user_profile(t)
              r == refresh_token(t)
          IN  /\ caller.ok
                  => (o.resp.status = HTTP_200_OK /\ o.resp.body[1].role = users[caller.uid].role)
              /\ r.resp.status = HTTP_200_OK
                  => \A n \in r.resp.tokens :
                        n.payload.type = "access" => n.payload.role = users[int(t.payload.sub)].role
    /\ \A e \in AllEmails, p \in Passwords :
          login(e, p).resp.status = HTTP_200_OK
          => \A n \in login(e, p).resp.tokens :
                n.payload.type = "access" => n.payload.role = users[int(n.payload.sub)].role
    /\ \A t \in tokens :
          decode_token(t, now) # NoPayload => decode_token(t, now).role = t.payload.role

\* a viewer's old access token after the promotion to cfo: the profile it
\* fetches says cfo
C14_Witness ==
    /\ resp.op = "me"
    /\ resp.status = HTTP_200_OK
    /\ resp.body[1].role = CFO
    /\ \E t \in tokens : /\ t.payload.type = "access"
                         /\ t.payload.role = VIEWER
                         /\ int(t.payload.sub) = resp.body[1].id
                         /\ users[int(t.payload.sub)].role = CFO

\* C15 (as claimed): when a request has ended, its session is closed, and
\* if it ended in failure the table is the table from before the request.
C15_FailureChangesNothing ==
    \A s \in Sessions :
        db[s].pc = "idle"
        => /\ db[s].session = "closed"
           /\ db[s].resp.status >= HTTP_400_BAD_REQUEST => users = db[s].before

\* C16 (as claimed): when two registrations of one email have both passed
\* the existence check and both have ended, one row has that email and the
\* two responses are a 201 and a 409.
C16_RaceLoserGetsConflict ==
    \A s1 \in Sessions, s2 \in Sessions :
        (/\ s1 # s2
         /\ db[s1].pc = "idle" /\ db[s2].pc = "idle"
         /\ db[s1].out.resp.op = "register" /\ db[s2].out.resp.op = "register"
         /\ db[s1].out.resp.status = HTTP_201_CREATED
         /\ db[s2].out.resp.status = HTTP_201_CREATED
         /\ db[s1].out.resp.body[1].email = db[s2].out.resp.body[1].email)
        => /\ Cardinality({i \in DOMAIN users : users[i].email = db[s1].out.resp.body[1].email}) = 1
           /\ {db[s1].resp.status, db[s2].resp.status} = {HTTP_201_CREATED, HTTP_409_CONFLICT}

\* C17, the outcome of a changePassword request of an authenticated caller:
\* a wrong current password is answered 400, a weak new password 422, both
\* with the table unchanged; otherwise 200 and only the caller's hash changes
C17_Outcomes ==
    \A t \in Authenticated, c \in Passwords, n \in Passwords, salt \in FreshSalts :
        LET o == change_password(t, c, n, salt)
            uid == get_current_user(t).uid
        IN  /\ (~verify_password(c, users[uid].hashed_password) /\ validate_password(n))
                => (o.resp.status = HTTP_400_BAD_REQUEST /\ o.users = users)
            /\ ~validate_password(n)
                => (o.resp.status = HTTP_422_UNPROCESSABLE_ENTITY /\ o.users = users)
            /\ (verify_password(c, users[uid].hashed_password) /\ validate_password(n))
                => /\ o.resp.status = HTTP_200_OK
                   /\ o.users = [users EXCEPT ![uid].hashed_password = hash_password(n, salt)]

\* C17, the logins after the step that commits a successful changePassword
C17_After(also_equal) ==
    (resp'.op = "change_password" /\ resp'.status = HTTP_200_OK)
    => \A t \in Authenticated, c \in Passwords, n \in Passwords, salt \in FreshSalts :
          LET o == change_password(t, c, n, salt)
          IN  (o.resp.status = HTTP_200_OK /\ users' = o.users /\ resp' = o.resp)
              => \A email \in {users[get_current_user(t).uid].email} :
                    /\ (login(email, n).resp.status)' = HTTP_200_OK
                    /\ (n # c \/ also_equal)
                        => (login(email, c).resp.status)' = HTTP_401_UNAUTHORIZED

C18_AcceptedUntilExp ==
    /\ \A t \in tokens : now < t.payload.exp => decode_token(t, now) = t.payload
    /\ \A t \in Presented :
          t.sig # Sign(t.payload, SECRET_KEY) => decode_token(t, now) = NoPayload

\* C18, in a step: a token held before the step still decodes after it while
\* unexpired, also when the step's login or refresh has superseded it, and
\* the refresh token a successful refresh was made with is accepted by
\* refresh again
C18_StillAccepted ==
    /\ \A t \in tokens :
          now' < t.payload.exp => (decode_token(t, now))' = t.payload
    /\ (resp'.op = "refresh" /\ resp'.status = HTTP_200_OK /\ now' = now)
        => \A t \in Presented :
              (refresh_token(t).resp = resp' /\ users' = users)
              => (refresh_token(t).resp.status)' = HTTP_200_OK

C19_Rejected(t, want) ==
    \/ t.sig # Sign(t.payload, SECRET_KEY)
    \/ t.payload.exp < now
    \/ t.payload.type # want

\* C19 (as claimed): refresh, and every bearer-authenticated operation,
\* answers an expired token, a token with a bad signature and a token of the
\* wrong type with one and the same status and detail.
C19_SameTokenError ==
    \A t1 \in Presented, t2 \in Presented :
        /\ (C19_Rejected(t1, "refresh") /\ C19_Rejected(t2, "refresh"))
            => /\ refresh_token(t1).resp.status = refresh_token(t2).resp.status
               /\ refresh_token(t1).resp.detail = refresh_token(t2).resp.detail
        /\ (C19_Rejected(t1, "access") /\ C19_Rejected(t2, "access"))
            => /\ get_current_user_profile(t1).resp.status = get_current_user_profile(t2).resp.status
               /\ get_current_user_profile(t1).resp.detail = get_current_user_profile(t2).resp.detail

\* C20: an access token issued at now has type access and exp = now + 30
\* minutes, a refresh token type refresh and exp = now + 7 days; in both iat
\* is the issue time and iat < exp. Checked for the tokens the issuing
\* functions return now and for every token a login or refresh has issued.
C20_Lifetimes ==
    /\ \A i \in DOMAIN users :
          LET data == [sub |-> str(users[i].id), email |-> users[i].email, role |-> users[i].role]
              a == create_access_token(data, now).payload
              r == create_refresh_token([sub |-> data.sub], now).payload
          IN  /\ a.type = "access" /\ a.exp = now + 30 * 60 /\ a.iat = now /\ a.iat < a.exp
              /\ r.type = "refresh" /\ r.exp = now + 7 * 24 * 60 * 60 /\ r.iat = now /\ r.iat < r.exp
    /\ \A t \in tokens \cup resp.tokens :
          /\ t.payload.type \in {"access", "refresh"}
          /\ t.payload.type = "access" => t.payload.exp = t.payload.iat + 1800
          /\ t.payload.type = "refresh" => t.payload.exp = t.payload.iat + 604800
          /\ t.payload.iat <= now
          /\ t.payload.iat < t.payload.exp

C20_Witness ==
    /\ resp.op = "refresh"
    /\ resp.status = HTTP_200_OK
    /\ now = 1799
    /\ \E t \in resp.tokens : t.payload.type = "refresh" /\ t.payload.exp = 1799 + 604800

\* C21: UserCRUD.update_user never changes a row's id or hashed_password,
\* whatever keyword arguments it is given; the profile update (PUT /me)
\* changes the caller's username only and leaves email, role, is_active,
\* is_verified, hashed_password, api_key and id of every row unchanged.
\* request bodies of PUT /me: the declared field and fields UserUpdate does
\* not declare
Bodies ==
    AllUpdateData
    \cup {[role |-> ADMIN, is_active |-> FALSE, id |-> 9],
          [username |-> UnAlice, email |-> "z@x.com", is_verified |-> TRUE,
           hashed_password |-> hash_password(PwShort, 1), api_key |-> generate_api_key(9)]}

C21_ProfileUpdateFrame ==
    \A t \in Presented, body \in Bodies :
        LET o == update_current_user_profile(t, UserUpdate(body))
            caller == get_current_user(t)
        IN  /\ Len(o.users) = Len(users)
            /\ \A i \in DOMAIN users :
                  /\ \A f \in Fields \ {"username"} : o.users[i][f] = users[i][f]
                  /\ (~caller.ok \/ i # caller.uid) => o.users[i] = users[i]

\* the same for the rows as they are before and after a call of update_user
C21_UpdateKeepsIdAndHash ==
    [][resp'.op = "update_user"
        => \A i \in DOMAIN users :
              /\ users'[i].id = users[i].id
              /\ users'[i].hashed_password = users[i].hashed_password]_vars

\* C22: for every password, the empty one included, validate_password_strength
\* accepts it if and only if it has 8 characters or more, an uppercase
\* letter, a lowercase letter, a digit and a special character; when it
\* rejects, the reasons it reports are exactly the rules the password
\* violates.
C22_Rules(password) ==
    [length |-> Len(password) >= 8,
     uppercase |-> any_char(UpperChars, password),
     lowercase |-> any_char(LowerChars, password),
     digit |-> any_char(DigitChars, password),
     special |-> any_char(special_chars, password)]

C22_Reason ==
    [length |-> "Password must be at least 8 characters long",
     uppercase |-> "Password must contain at least one uppercase letter",
     lowercase |-> "Password must contain at least one lowercase letter",
     digit |-> "Password must contain at least one digit",
     special |-> "Password must contain at least one special character (!@#$%^&*()_+-=[]{}|;:,.<>?)"]

C22_Verdict(r) ==
    LET rules == C22_Rules(r.password)
    IN  /\ r.is_valid <=> \A k \in DOMAIN rules : rules[k]
        /\ ~r.is_valid => r.message = {C22_Reason[k] : k \in {j \in DOMAIN rules : ~rules[j]}}

C22_StrengthReportsEveryRule ==
    resp.op = "validate_password_strength" => C22_Verdict(resp.body[1])

\* the same for the passwords that are not empty
C22_NonEmptyReportsEveryRule ==
    (resp.op = "validate_password_strength" /\ resp.body[1].password # << >>)
        => C22_Verdict(resp.body[1])

\* C23: deactivation sets is_active to false on the target and changes
\* nothing else: the row stays, its other fields and the other rows are as
\* they were; deactivating a row that is already deactivated succeeds and
\* leaves the table as the first deactivation left it.
C23_Outcomes ==
    /\ \A i \in DOMAIN users :
          LET user == UserCRUD_deactivate_user(users[i])
          IN  /\ user = [users[i] EXCEPT !.is_active = FALSE]
              /\ UserCRUD_deactivate_user(user) = user
    /\ \A t \in Presented, i \in UserIds :
          LET o == deactivate_user(t, i)
          IN  IF o.resp.status = HTTP_200_OK
              THEN /\ i \in DOMAIN users
                   /\ o.users = [users EXCEPT ![i].is_active = FALSE]
              ELSE o.users = users
    /\ \A t \in Admins, i \in DOMAIN users :
          (i # get_current_user(t).uid /\ ~users[i].is_active)
              => /\ deactivate_user(t, i).resp.status = HTTP_200_OK
                 /\ deactivate_user(t, i).users = users

C23_Step ==
    (resp'.op = "deactivate_user" /\ resp'.status = HTTP_200_OK)
        => \E i \in DOMAIN users :
              /\ users' = [users EXCEPT ![i].is_active = FALSE]
              /\ ~users'[i].is_active

C23_DeactivateOnlyClearsFlag == []C23_Outcomes /\ [][C23_Step]_vars

\* a deactivation has been answered, and the same request once more gets the
\* same answer
C23_Witness ==
    /\ resp.op = "deactivate_user"
    /\ resp.status = HTTP_200_OK
    /\ \E i \in DOMAIN users : ~users[i].is_active
    /\ \E t \in Admins, i \in DOMAIN users :
          ~users[i].is_active /\ deactivate_user(t, i).resp = resp

\* C24: no endpoint removes a row or changes an id: along every sequence of
\* requests the set of ids only grows, the id and created_at of a row never
\* change, and every successful register gets an id no row had before.
C24_Ids(table) == {table[i].id : i \in DOMAIN table}

C24_IdsAreKeys ==
    \A i, j \in DOMAIN users : i # j => users[i].id # users[j].id

C24_Step ==
    /\ C24_Ids(users) \subseteq C24_Ids(users')
    /\ \A i \in DOMAIN users : \E j \in DOMAIN users' :
          /\ users'[j].id = users[i].id
          /\ users'[j].email = users[i].email
          /\ users'[j].created_at = users[i].created_at
    /\ users' # users
          => (resp'.op = "register" /\ resp'.status = HTTP_201_CREATED) = (Len(users') # Len(users))
    /\ Len(users') # Len(users)
          => /\ Len(resp'.body) = 1
             /\ resp'.body[1].id \notin C24_Ids(users)
             /\ C24_Ids(users') = C24_Ids(users) \cup {resp'.body[1].id}

C25_Limits == {1, 2}

RECURSIVE C25_Pages(_, _, _)
C25_Pages(skip, limit, scan) ==
    IF get_all_users(skip, limit, scan) = << >> THEN << >>
    ELSE get_all_users(skip, limit, scan) \o C25_Pages(skip + limit, limit, scan)

\* what holds of the pages of one scan: active rows only, at most limit,
\* every active row once
C25_PagesOfOneScan ==
    \A scan \in Scans, limit \in C25_Limits :
        LET listed == C25_Pages(0, limit, scan)
        IN  /\ \A skip \in 0..Len(users) :
                  /\ Len(get_all_users(skip, limit, scan)) <= limit
                  /\ \A k \in DOMAIN get_all_users(skip, limit, scan) :
                        get_all_users(skip, limit, scan)[k].is_active
            /\ \A i \in DOMAIN users :
                  users[i].is_active
                      <=> Cardinality({k \in DOMAIN listed : listed[k].id = users[i].id}) = 1
            /\ Len(listed) = Cardinality({i \in DOMAIN users : users[i].is_active})

\* the order of a list that was sent
C25_ListedByIdAscending ==
    (resp.op = "list_users" /\ resp.status = HTTP_200_OK)
        => /\ \A k \in DOMAIN resp.body : resp.body[k].is_active
           /\ \A k \in 1..(Len(resp.body) - 1) : resp.body[k].id < resp.body[k + 1].id

\* C26: get_user_by_api_key(k) returns a user if and only if k is that
\* user's present api_key and the user is active: after a new key is
\* generated for a user the earlier key finds no user, after a user is
\* deactivated the user's key finds no user, and no key finds two users.
C26_Holders(api_key) == {i \in DOMAIN users : users[i].api_key = api_key}

C26_Lookup ==
    \A api_key \in Keys :
        LET user == get_user_by_api_key(api_key)
        IN  /\ Cardinality(C26_Holders(api_key)) <= 1
            /\ \A i \in DOMAIN users :
                  (user = i) <=> (users[i].api_key = api_key /\ users[i].is_active)
            /\ (\A i \in C26_Holders(api_key) : ~users[i].is_active) => user = 0

C26_Step ==
    /\ (resp'.op = "generate_api_key_for_user" /\ resp' # resp)
          => \A i \in DOMAIN users, api_key \in {resp'.detail} :
                (users'[i] # users[i])
                    => /\ users'[i].api_key = api_key
                       /\ \A found \in {IF users[i].is_active THEN i ELSE 0} :
                             (get_user_by_api_key(api_key) = found)'
                       /\ \A earlier \in {users[i].api_key} \ {None} :
                             (get_user_by_api_key(earlier) = 0)'
    /\ resp'.op = "get_user_by_api_key"
          => \/ /\ resp'.body = << >>
                /\ \A api_key \in {resp'.detail} : (get_user_by_api_key(api_key) = 0)'
             \/ /\ Len(resp'.body) = 1
                /\ resp'.body[1].api_key = resp'.detail
                /\ resp'.body[1].is_active

C26_KeyFindsItsActiveUser == []C26_Lookup /\ [][C26_Step]_vars

\* a lookup has found nobody for the key of a deactivated user, while
\* another user's key finds that user
C26_Witness ==
    /\ resp.op = "get_user_by_api_key"
    /\ resp.body = << >>
    /\ \E i \in DOMAIN users : users[i].api_key = resp.detail /\ ~users[i].is_active
    /\ \E i \in DOMAIN users, api_key \in Keys : get_user_by_api_key(api_key) = i

\* C27: for all passwords P and Q, verify_password(P, hash_password(P)) is
\* true, verify_password(Q, hash_password(P)) is false when Q differs from
\* P, and two calls of hash_password(P) return different strings that both
\* verify against P.
C27_Verified(r) ==
    /\ r.result <=> (r.plain_password = r.password)
    /\ verify_password(r.password, r.hashed)

C27_Step ==
    (resp.op = "hash_password" /\ resp'.op = "hash_password")
        => /\ resp'.body[1].password = resp.body[1].password
           /\ resp'.body[1].hashed # resp.body[1].hashed
           /\ verify_password(resp.body[1].password, resp.body[1].hashed)
           /\ verify_password(resp.body[1].password, resp'.body[1].hashed)

C27_HashAndVerify ==
    resp.op = "verify_password" => C27_Verified(resp.body[1])

\* the same for the passwords that bcrypt reads whole, and the two hashes
\* of one password
C27_WithinTruncateSize ==
    /\ []((resp.op = "verify_password"
            /\ Len(resp.body[1].password) <= truncate_size
            /\ Len(resp.body[1].plain_password) <= truncate_size)
          => C27_Verified(resp.body[1]))
    /\ [][C27_Step]_vars

\* C28: at startup a warning is logged whenever the signing secret is
\* empty, the built-in default or a placeholder: no startup with such a
\* secret completes without the warning.
C28_Placeholders == {"changeme", "<your-secret-key>"}

C28_WarnsAboutWeakSecret ==
    (resp.op = "startup" /\ resp.detail = "serving"
        /\ resp.body[1].SECRET_KEY \in {"", SECRET_KEY} \cup C28_Placeholders)
        => "WARNING: Using default SECRET_KEY. Change this in production!" \in resp.headers

\* the same for the built-in default alone
C28_WarnsAboutDefaultSecret ==
    (resp.op = "startup" /\ resp.body[1].SECRET_KEY = SECRET_KEY)
        => "WARNING: Using default SECRET_KEY. Change this in production!" \in resp.headers

\* C29: token rotation: after a successful refresh the refresh token that
\* was presented is invalid, so that presenting it once more fails.
C29_Accepted(t) == refresh_token(t).resp.status = HTTP_200_OK

\* the refresh tokens a refresh step can have been answered for: those the
\* endpoint accepted for the user of the new pair
C29_RotationInvalidates ==
    [][(resp'.op = "refresh" /\ resp'.status = HTTP_200_OK /\ now' = now)
        => \A t \in {h \in Presented : h.payload.type = "refresh" /\ C29_Accepted(h)} :
              ((\A n \in resp'.tokens : n.payload.sub = t.payload.sub) /\ t \notin resp'.tokens)
                  => ~C29_Accepted(t)']_vars

\* C30: from a state with an active admin, after any sequence and any
\* interleaving of the endpoints at least one active admin remains: admins
\* cannot lock every admin out, neither by changing their own role nor by
\* deactivating or demoting each other.
C30_AnActiveAdminRemains ==
    \E i \in DOMAIN users : users[i].role = ADMIN /\ users[i].is_active

\* C31: the admin endpoints decide on the role stored for the token's
\* subject, not on the role claim of the token: a token issued before its
\* user was demoted from admin is refused with 403, a token issued before
\* its user was promoted to admin is accepted without a new login.
C31_StoredRoleDecides ==
    \A t \in Presented :
        LET caller == get_current_user(t)
        IN  caller.ok
            => \A o \in AdminResults(t) :
                  IF users[caller.uid].role = ADMIN
                  THEN o.resp.status \notin {HTTP_401_UNAUTHORIZED, HTTP_403_FORBIDDEN}
                  ELSE o.resp.status = HTTP_403_FORBIDDEN /\ o.users = users

\* a demoted admin's older token has been refused, while the older token of
\* a user promoted since is one the admin endpoints accept
C31_Witness ==
    /\ resp.status = HTTP_403_FORBIDDEN
    /\ \E t \in tokens :
          /\ t.payload.role = ADMIN
          /\ get_current_user(t).ok
          /\ users[get_current_user(t).uid].role # ADMIN
          /\ \E scan \in Scans : list_users(t, 0, 2, scan).resp = resp
    /\ \E t \in tokens :
          /\ t.payload.role = VIEWER
          /\ get_current_user(t).ok
          /\ users[get_current_user(t).uid].role = ADMIN
          /\ \A scan \in Scans : list_users(t, 0, 2, scan).resp.status = HTTP_200_OK

\* C32: no privilege escalation: a user's role changes only in an
\* update_user_role step whose caller is at that moment an active user with
\* role admin; register, login, refresh, PUT /me, change_password and
\* deactivate_user leave every role as it is, and no request of a caller
\* who is not admin changes any role.
C32_RolesKept(o) ==
    \A i \in DOMAIN users : o.users[i].role = users[i].role

C32_Outcomes ==
    /\ \A o \in AllResults : o.resp.op # "update_user_role" => C32_RolesKept(o)
    /\ \A t \in Presented :
          /\ \A body \in Bodies : C32_RolesKept(update_current_user_profile(t, UserUpdate(body)))
          /\ \A i \in UserIds, r \in RoleInputs :
                ~C32_RolesKept(update_user_role(t, i, r))
                    => /\ get_current_user(t).ok
                       /\ users[get_current_user(t).uid].is_active
                       /\ users[get_current_user(t).uid].role = ADMIN
          /\ (~get_current_user(t).ok \/ users[get_current_user(t).uid].role # ADMIN)
                => \A o \in BearerResults(t) : C32_RolesKept(o)

C32_Step ==
    (\E i \in DOMAIN users : users'[i].role # users[i].role)
        => /\ resp'.op = "update_user_role"
           /\ resp'.status = HTTP_200_OK
           /\ \E t \in Admins : users[get_current_user(t).uid].role = ADMIN

C32_NoPrivilegeEscalation == []C32_Outcomes /\ [][C32_Step]_vars

\* an admin has changed the role of a registered user, who holds a token
C32_Witness ==
    /\ resp.op = "update_user_role"
    /\ resp.status = HTTP_200_OK
    /\ \E i \in DOMAIN users : users[i].role \notin {ADMIN, VIEWER}
    /\ \E t \in tokens : get_current_user(t).ok /\ users[get_current_user(t).uid].role # ADMIN

\* C33: login verifies the password before it looks at the active flag: for
\* a deactivated user a wrong password gets the very response an unknown
\* email gets, and "Inactive user account" is answered only when the
\* password verifies against the hash of a deactivated row.
C33_PasswordBeforeActiveFlag ==
    \A e \in AllEmails, p \in Passwords :
        LET user == get_user_by_email(e)
            out == login(e, p)
        IN  /\ (user # 0 /\ ~users[user].is_active
                         /\ ~verify_password(p, users[user].hashed_password))
                  => /\ out.resp = login("nobody@x.com", p).resp
                     /\ out.resp.detail = "Incorrect email or password"
                     /\ out.users = users
            /\ out.resp.detail = "Inactive user account"
                  => /\ user # 0
                     /\ ~users[user].is_active
                     /\ verify_password(p, users[user].hashed_password)

\* a deactivated user has just logged in with a wrong password, and the right
\* password would be answered with "Inactive user account"
C33_Witness ==
    \E e \in Emails, p \in Passwords, q \in Passwords :
        LET user == get_user_by_email(e)
        IN  /\ user # 0
            /\ ~users[user].is_active
            /\ ~verify_password(p, users[user].hashed_password)
            /\ resp = login(e, p).resp
            /\ login(e, q).resp.detail = "Inactive user account"

\* C34: when deactivate_user(u) or update_user_role(u, r) runs at the same
\* time as a login, a profile update or a password change of u that read u's
\* row before the admin's commit, the admin's write is not lost: the commit
\* of u's request writes only the columns it changed, so is_active and role
\* stay as the admin set them.
C34_OwnOps == {"login", "update_me", "change_password"}

C34_Step ==
    /\ \A s \in Sessions :
          (db[s].pc = "flushed" /\ db'[s].pc = "committed")
              => /\ db[s].out.resp.op \in C34_OwnOps
                    => \A i \in DOMAIN users : /\ users'[i].is_active = users[i].is_active
                                                /\ users'[i].role = users[i].role
                 /\ db[s].out.resp.op = "deactivate_user" => ~users'[2].is_active
                 /\ db[s].out.resp.op = "update_user_role" => users'[2].role = CFO
    /\ ~users[2].is_active => ~users'[2].is_active
    /\ users[2].role = CFO => users'[2].role = CFO

C35_SubjectBinding ==
    /\ \A i \in DOMAIN users : users[i].id = i
    /\ \A e \in AllEmails, p \in Passwords :
          login(e, p).resp.status = HTTP_200_OK
              => \A n \in login(e, p).resp.tokens :
                    /\ users[get_user_by_email(e)].email = e
                    /\ n.payload.sub = str(users[get_user_by_email(e)].id)
    /\ \A t \in Presented :
          /\ refresh_token(t).resp.status = HTTP_200_OK
                => \A n \in refresh_token(t).resp.tokens :
                      /\ n.payload.sub = t.payload.sub
                      /\ n.payload.type = "access"
                            => n.payload.email = users[int(t.payload.sub)].email
          /\ get_current_user(t).ok
                => /\ str(users[get_current_user(t).uid].id) = t.payload.sub
                   /\ t.payload.type = "access"
                         => t.payload.email = users[get_current_user(t).uid].email
                   /\ get_current_user_profile(t).resp.body[1].id = int(t.payload.sub)

\* the second account has just refreshed its pair while the first account
\* holds tokens too
C35_Witness ==
    /\ resp.op = "refresh"
    /\ resp.status = HTTP_200_OK
    /\ \E n \in resp.tokens : n.payload.sub = "2" /\ get_current_user(n).ok
    /\ \E t \in tokens : t.payload.sub = "1" /\ get_current_user(t).ok

\* C36: create_access_token called with an explicit expires_delta, the zero
\* duration included, embeds exp = now + expires_delta; the default of 30
\* minutes is used only when expires_delta is None.
C36_ExpiresDeltaEmbedded ==
    resp.op = "create_access_token"
        => \A token \in resp.tokens :
              token.payload.exp =
                  token.payload.iat + (IF resp.body = << >>
                                       THEN ACCESS_TOKEN_EXPIRE_MINUTES * 60
                                       ELSE resp.body[1])

\* what holds instead: every duration but zero is embedded, and without
\* expires_delta the token is the one the endpoints issue
C36_NonZeroDeltaEmbedded ==
    resp.op = "create_access_token"
        => \A token \in resp.tokens :
              /\ (resp.body # << >> /\ resp.body # timedelta(0))
                    => token.payload.exp = token.payload.iat + resp.body[1]
              /\ resp.body \in {<< >>, timedelta(0)}
                    => token.payload.exp = token.payload.iat + ACCESS_TOKEN_EXPIRE_MINUTES * 60
              /\ create_access_token_expires_delta(token.payload, << >>, token.payload.iat)
                    = create_access_token(token.payload, token.payload.iat)

\* C37: the role helpers of a user agree with the hierarchy for every stored
\* role string, known or unknown: can_execute_agents is has_permission(role,
\* analyst), can_view_all_reports is has_permission(role, cfo),
\* can_manage_users is has_permission(role, admin), and the last is the
\* decision require_role(admin) takes for that user on the admin endpoints.
C37_Levels(role, required_role) ==
    /\ role \in DOMAIN ROLE_HIERARCHY
    /\ ROLE_HIERARCHY[role] >= ROLE_HIERARCHY[required_role]

C37_HelpersAgreeWithHierarchy ==
    /\ \A role \in RoleStrings :
          /\ can_execute_agents([role |-> role]) = C37_Levels(role, ANALYST)
          /\ can_view_all_reports([role |-> role]) = C37_Levels(role, CFO)
          /\ can_manage_users([role |-> role]) = C37_Levels(role, ADMIN)
    /\ \A i \in DOMAIN users :
          /\ can_execute_agents(users[i]) = has_permission(users[i].role, ANALYST)
          /\ can_view_all_reports(users[i]) = has_permission(users[i].role, CFO)
          /\ can_manage_users(users[i]) = has_permission(users[i].role, ADMIN)
    /\ \A t \in Presented :
          get_current_user(t).ok
              => LET user == users[get_current_user(t).uid]
                 IN  /\ can_manage_users(user) = role_checker(ADMIN, t).ok
                     /\ can_view_all_reports(user) = role_checker(CFO, t).ok
                     /\ can_execute_agents(user) = role_checker(ANALYST, t).ok
                     /\ \A scan \in Scans :
                           can_manage_users(user)
                               = (list_users(t, 0, 2, scan).resp.status = HTTP_200_OK)

\* a row holds a string that is no role, another row is an admin, and an
\* admin endpoint has just refused a caller
C37_Witness ==
    /\ resp.op = "list_users"
    /\ resp.status = HTTP_403_FORBIDDEN
    /\ \E i \in DOMAIN users, j \in DOMAIN users :
          /\ users[i].role \notin DOMAIN ROLE_HIERARCHY
          /\ ~can_manage_users(users[i])
          /\ can_manage_users(users[j])
          /\ can_view_all_reports(users[j])

\* C38: the initialization script runs its steps in the fixed order
\* environment check, dependency check, database initialization, admin user
\* creation, system verification, next steps; when a step fails the process
\* exits with code 1 and no later step runs, and "Initialization complete"
\* is printed only when every step succeeded.
C38_Ran == resp.body[1].ran
C38_Complete == "Initialization complete! You can now start the server." \in resp.headers

C38_InOrder ==
    /\ Len(C38_Ran) <= Len(Steps)
    /\ \A k \in DOMAIN C38_Ran : C38_Ran[k][1] = Steps[k]

C38_FailureEndsScript ==
    resp.op = "init_phase1"
        => /\ C38_InOrder
           /\ \A k \in DOMAIN C38_Ran :
                 C38_Ran[k][2] = "False"
                     => /\ k = Len(C38_Ran)
                        /\ resp.detail = "exit" => resp.status = 1
                        /\ resp.detail \in {"exit"} \cup {Steps[j] : j \in 1..k}
           /\ C38_Complete
                 => /\ Len(C38_Ran) = Len(Steps)
                    /\ \A k \in DOMAIN C38_Ran : C38_Ran[k][2] = "True"

\* what holds instead: the order is fixed, a failure of one of the first
\* three steps ends the script with code 1, and the script completes only
\* after all six calls with the first three successful
C38_FirstThreeAreFatal ==
    resp.op = "init_phase1"
        => /\ C38_InOrder
           /\ \A k \in DOMAIN C38_Ran :
                 (C38_Ran[k][2] = "False" /\ k <= 3)
                     => k = Len(C38_Ran) /\ resp.detail = "exit" /\ resp.status = 1
           /\ C38_Complete
                 => /\ Len(C38_Ran) = Len(Steps)
                    /\ resp.detail = "exit" /\ resp.status = 0
                    /\ \A k \in 1..3 : C38_Ran[k][2] = "True"
                    /\ C38_Ran[6][2] = "True"

====
